---- MODULE Spec2Model ----
(***************************************************************************)
(* Model of the UniFi MCP server core: the tool registry and dispatcher    *)
(* (server/toolRegistry.ts), the capability detector and the API client    *)
(* (unifi/versionDetector.ts) and the retry helper (utils/errors.ts).      *)
(*                                                                         *)
(* Strings that the code inspects character by character (version strings, *)
(* hardware model names) are sequences of one-character strings.  Tool     *)
(* names, categories and error codes, which the code only compares for     *)
(* equality, are TLA+ strings.                                             *)
(***************************************************************************)
EXTENDS Integers, Sequences, FiniteSets, TLC

VARIABLES
    tools,              \* ToolRegistry.tools: name -> entry, None when absent
    categories,         \* ToolRegistry.categories: category -> list of names
    dependencies,       \* ToolRegistry.dependencies: name -> list, None when absent
    connectionInfo,     \* UniFiClient.connectionInfo (isConnected, isAuthenticated)
    cachedCapabilities, \* VersionDetector.cachedCapabilities, None when null
    cacheTimestamp,     \* VersionDetector.cacheTimestamp, None when null
    now,                \* the wall clock, in ticks
    probes,             \* number of getSystemInfo probes the detector has issued
    ret,                \* what the last operation returned or threw
    rt,                 \* state of one ErrorRecovery.withRetry call
    rl,                 \* state of the client's rate limiter and its callers
    client,             \* UniFiClient: config, requestQueue, lastError and
                        \* the position of the call in progress
    detections          \* the detectCapabilities() calls of concurrent callers

vars == <<tools, categories, dependencies, connectionInfo, cachedCapabilities,
          cacheTimestamp, now, probes, ret, rt, rl, client, detections>>

\* A nullable value is the empty sequence (null, undefined) or a one-element
\* sequence holding the value.
None == <<>>
Some(x) == <<x>>
Val(o) == o[1]

\* ------------------------------------------------------------------------
\* Bounds of the model
\* ------------------------------------------------------------------------

\* Total number of handler-level invocations recorded over all entries.
MaxUsage == 2
\* Number of probes after which the detector model stops probing.
MaxProbes == 3
\* The clock stops at this tick.
MaxTime == 7
\* Clock resolution: ticks in one 60-second rate-limit window.
TicksPerWindow == 2
\* Clock resolution: ticks in the 60-minute cache validity window.
TicksPerValidity == 2
\* Largest configured maxAttempts tried for withRetry (the default is 3).
MaxAttemptsBound == 4
\* Largest bucket capacity (requestsPerMinute) tried.
MaxCapacity == 2
\* Number of concurrent callers of enforceRateLimit.
NumCallers == 3
\* Number of concurrent callers of detectCapabilities.
NumDetectors == 2
\* Number of connect() calls after which the client model stops connecting.
MaxConnectionAttempts == 3
\* Largest number of dot-separated components of a generated version string.
MaxComponents == 3
\* Largest number of elements of an array in a response body.
MaxItems == 2

\* ------------------------------------------------------------------------
\* Character strings
\* ------------------------------------------------------------------------

Digits == {"0", "1", "2", "3", "4", "5", "6", "7", "8", "9"}

DigitValue(c) ==
    CASE c = "0" -> 0 [] c = "1" -> 1 [] c = "2" -> 2 [] c = "3" -> 3
      [] c = "4" -> 4 [] c = "5" -> 5 [] c = "6" -> 6 [] c = "7" -> 7
      [] c = "8" -> 8 [] c = "9" -> 9

IsDigits(s) == Len(s) > 0 /\ \A i \in 1..Len(s) : s[i] \in Digits

RECURSIVE DecimalValue(_)
DecimalValue(s) ==
    IF Len(s) = 0 THEN 0
    ELSE 10 * DecimalValue(SubSeq(s, 1, Len(s) - 1)) + DigitValue(s[Len(s)])

\* Number(part) || 0 : a part that is not a decimal number is NaN, hence 0.
PartNumber(s) == IF IsDigits(s) THEN DecimalValue(s) ELSE 0

\* String.prototype.split('.')
RECURSIVE SplitDots(_)
SplitDots(s) ==
    IF \A i \in 1..Len(s) : s[i] # "."
    THEN <<s>>
    ELSE LET k == CHOOSE i \in 1..Len(s) :
                      s[i] = "." /\ \A j \in 1..(i - 1) : s[j] # "."
         IN  <<SubSeq(s, 1, k - 1)>> \o SplitDots(SubSeq(s, k + 1, Len(s)))

\* String.prototype.includes
Includes(s, sub) ==
    \E i \in 0..(Len(s) - Len(sub)) : SubSeq(s, i + 1, i + Len(sub)) = sub

LowerChar(c) ==
    CASE c = "U" -> "u" [] c = "C" -> "c" [] c = "G" -> "g" [] c = "D" -> "d"
      [] c = "M" -> "m" [] c = "P" -> "p" [] c = "S" -> "s" [] c = "B" -> "b"
      [] c = "X" -> "x" [] c = "R" -> "r"
      [] OTHER -> c

\* model.toLowerCase().replace(/[-_\s]/g, '')
RECURSIVE normalizeModel(_)
normalizeModel(s) ==
    IF Len(s) = 0 THEN <<>>
    ELSE IF s[1] \in {"-", "_", " "}
         THEN normalizeModel(Tail(s))
         ELSE <<LowerChar(s[1])>> \o normalizeModel(Tail(s))

\* ------------------------------------------------------------------------
\* config/constants.ts
\* ------------------------------------------------------------------------

V_9_0_0 == <<"9", ".", "0", ".", "0">>
V_8_5_0 == <<"8", ".", "5", ".", "0">>
V_6_0_0 == <<"6", ".", "0", ".", "0">>

ZBF_MINIMUM == V_9_0_0
LEGACY_FIREWALL_DEPRECATED == V_9_0_0
ADVANCED_STATS_MINIMUM == V_8_5_0
LEGACY_FIREWALL_MINIMUM == V_6_0_0
LEGACY_FIREWALL_DEPRECATED_IN == V_9_0_0

UCG_Ultra == <<"U", "C", "G", "-", "U", "l", "t", "r", "a">>
UCG_Max == <<"U", "C", "G", "-", "M", "a", "x">>
UDM_Pro == <<"U", "D", "M", "-", "P", "r", "o">>
UDM_Base == <<"U", "D", "M", "-", "B", "a", "s", "e">>
USG_3P == <<"U", "S", "G", "-", "3", "P">>

ZBF_REQUIRED_HARDWARE == {UCG_Ultra, UCG_Max, UDM_Pro, UDM_Base}

\* ------------------------------------------------------------------------
\* VersionDetector: pure helpers
\* ------------------------------------------------------------------------

\* The match of /(\d+\.\d+\.\d+)/ that starts at position i, if any: the three
\* digit groups are greedy, so each runs to the first non-digit.
DigitRunEnd(s, i) ==
    IF \A j \in i..Len(s) : s[j] \in Digits
    THEN Len(s)
    ELSE (CHOOSE j \in i..Len(s) :
              s[j] \notin Digits /\ \A k \in i..(j - 1) : s[k] \in Digits) - 1

MatchEndAt(s, i) ==
    LET e1 == DigitRunEnd(s, i)
    IN  IF e1 < i \/ e1 + 2 > Len(s) \/ s[e1 + 1] # "." THEN 0
        ELSE LET e2 == DigitRunEnd(s, e1 + 2)
             IN  IF e2 < e1 + 2 \/ e2 + 2 > Len(s) \/ s[e2 + 1] # "." THEN 0
                 ELSE LET e3 == DigitRunEnd(s, e2 + 2)
                      IN  IF e3 < e2 + 2 THEN 0 ELSE e3

normalizeVersion(version) ==
    LET starts == {i \in 1..Len(version) : MatchEndAt(version, i) > 0}
    IN  IF starts = {} THEN version
        ELSE LET i == CHOOSE k \in starts : \A m \in starts : k <= m
             IN  SubSeq(version, i, MatchEndAt(version, i))

Max(a, b) == IF a >= b THEN a ELSE b

RECURSIVE CompareFrom(_, _, _)
CompareFrom(cur, min, i) ==
    IF i > Max(Len(cur), Len(min)) THEN TRUE
    ELSE LET c == IF i <= Len(cur) THEN PartNumber(cur[i]) ELSE 0
             m == IF i <= Len(min) THEN PartNumber(min[i]) ELSE 0
         IN  IF c > m THEN TRUE
             ELSE IF c < m THEN FALSE
             ELSE CompareFrom(cur, min, i + 1)

\* Mutant: equal versions do not satisfy the requirement.
isVersionAtLeast_Strict(current, minimum) ==
    /\ SplitDots(current) # SplitDots(minimum)
    /\ CompareFrom(SplitDots(current), SplitDots(minimum), 1)

isVersionAtLeast(current, minimum) ==
    CompareFrom(SplitDots(current), SplitDots(minimum), 1)

isHardwareModelCompatible(actual, required) ==
    Includes(normalizeModel(actual), normalizeModel(required))

\* Mutant: the hardware model is not looked at.
checkZBFSupport_VersionOnly(version, hardwareModel) ==
    isVersionAtLeast(version, ZBF_MINIMUM)

checkZBFSupport(version, hardwareModel) ==
    IF ~isVersionAtLeast(version, ZBF_MINIMUM) THEN FALSE
    ELSE \E model \in ZBF_REQUIRED_HARDWARE :
             \/ Includes(hardwareModel, model)
             \/ isHardwareModelCompatible(hardwareModel, model)

\* Mutant: the legacy firewall is dropped where it is deprecated.
checkLegacyFirewallSupport_DroppedWhenDeprecated(version) ==
    /\ ~isVersionAtLeast(version, LEGACY_FIREWALL_DEPRECATED_IN)
    /\ isVersionAtLeast(version, LEGACY_FIREWALL_MINIMUM)

checkLegacyFirewallSupport(version) ==
    IF isVersionAtLeast(version, LEGACY_FIREWALL_DEPRECATED_IN) THEN TRUE
    ELSE isVersionAtLeast(version, LEGACY_FIREWALL_MINIMUM)

getEndpointAvailability(version, supportsZBF) ==
    LET base == <<"/api/system", "/api/s/{site}/stat/device",
                  "/api/s/{site}/stat/sta", "/api/s/{site}/rest/networkconf",
                  "/api/s/{site}/stat/sites", "/api/s/{site}/stat/event">>
        zbf == IF supportsZBF
               THEN <<"/api/s/{site}/rest/firewallzone",
                      "/api/s/{site}/rest/firewallzonepolicy",
                      "/api/s/{site}/rest/simpleappblock">>
               ELSE <<>>
        legacyEndpoints == <<"/api/s/{site}/rest/firewallrule",
                             "/api/s/{site}/rest/firewallgroup">>
        legacy == checkLegacyFirewallSupport(version)
        dep == isVersionAtLeast(version, LEGACY_FIREWALL_DEPRECATED)
        adv == IF isVersionAtLeast(version, ADVANCED_STATS_MINIMUM)
               THEN <<"/api/s/{site}/stat/device-stats",
                      "/api/s/{site}/stat/user-stats",
                      "/api/s/{site}/stat/health">>
               ELSE <<>>
    IN  [supported |-> base \o zbf
                       \o (IF legacy /\ ~dep THEN legacyEndpoints ELSE <<>>)
                       \o adv,
         deprecated |-> IF legacy /\ dep THEN legacyEndpoints ELSE <<>>]

analyzeCapabilities(systemInfo) ==
    LET version == normalizeVersion(systemInfo.version)
        supportsZBF == checkZBFSupport(version, systemInfo.hardwareModel)
        endpoints == getEndpointAvailability(version, supportsZBF)
    IN  [version |-> version,
         supportsZBF |-> supportsZBF,
         supportsLegacyFirewall |-> checkLegacyFirewallSupport(version),
         supportedEndpoints |-> endpoints.supported,
         deprecatedEndpoints |-> endpoints.deprecated,
         model |-> systemInfo.hardwareModel]

\* ------------------------------------------------------------------------
\* VersionDetector: cache and detection
\* ------------------------------------------------------------------------

\* What getSystemInfo can report.
SystemInfos ==
    {[version |-> <<"8", ".", "4", ".", "0">>, hardwareModel |-> USG_3P],
     [version |-> <<"9", ".", "0", ".", "0">>, hardwareModel |-> UDM_Pro]}

\* analyzeCapabilities is a pure function of the system information: its
\* value on each system information of the model, computed once.
AnalyzedSnapshots == {<<si, analyzeCapabilities(si)>> : si \in SystemInfos}

Analyzed(systemInfo) ==
    (CHOOSE p \in AnalyzedSnapshots : p[1] = systemInfo)[2]

\* Mutant: a snapshot exactly as old as the validity window is still served.
isCacheValid_Inclusive(cache, ts, t) ==
    IF cache = None \/ ts = None THEN FALSE
    ELSE (t - Val(ts)) <= TicksPerValidity

\* cacheAge < cacheValidityMinutes * 60 * 1000, the window being
\* TicksPerValidity ticks long.
isCacheValid(cache, ts, t) ==
    IF cache = None \/ ts = None THEN FALSE
    ELSE (t - Val(ts)) < TicksPerValidity

\* Mutant: the snapshot is stored without its timestamp.
Detected_WithoutTimestamp(capabilities, t) ==
    [ok |-> TRUE, caps |-> Some(capabilities), cache |-> Some(capabilities),
     ts |-> None, probed |-> TRUE, t |-> t]

\* A probe answered at time t: the snapshot is returned and cached.
Detected(capabilities, t) ==
    [ok |-> TRUE, caps |-> Some(capabilities), cache |-> Some(capabilities),
     ts |-> Some(t), probed |-> TRUE, t |-> t]

\* One detectCapabilities() call made at time t.  probe is what getSystemInfo
\* gives if it is called: None when it throws, the system information
\* otherwise; d is how long the probe takes.  The result holds the outcome
\* (ok and caps, or the thrown CAPABILITY_DETECTION_FAILED), the detector's
\* fields afterwards, whether a probe was issued and the time at return.
detectCapabilities(cache, ts, t, probe, d) ==
    IF isCacheValid(cache, ts, t)
    THEN [ok |-> TRUE, caps |-> cache, cache |-> cache, ts |-> ts,
          probed |-> FALSE, t |-> t]
    ELSE IF probe # None
         THEN Detected(Analyzed(Val(probe)), t + d)
         ELSE [ok |-> FALSE, caps |-> None, cache |-> cache, ts |-> ts,
               probed |-> TRUE, t |-> t + d]

\* The switch of validateFeature on a detected snapshot: "ok" or the code of
\* the error it throws.
validateFeature(feature, capabilities) ==
    CASE feature = "zbf" ->
             IF ~capabilities.supportsZBF THEN "FEATURE_NOT_SUPPORTED" ELSE "ok"
      [] feature = "legacy-firewall" ->
             IF ~capabilities.supportsLegacyFirewall
             THEN "FEATURE_NOT_SUPPORTED" ELSE "ok"
      [] feature = "advanced-stats" ->
             IF ~isVersionAtLeast(capabilities.version, ADVANCED_STATS_MINIMUM)
             THEN "FEATURE_NOT_SUPPORTED" ELSE "ok"
      [] OTHER -> "UNKNOWN_FEATURE"

AlwaysAvailableTools ==
    {"unifi_connect", "unifi_test_connection", "unifi_get_system_info",
     "unifi_disconnect",
     "unifi_get_devices", "unifi_get_device_details", "unifi_restart_device",
     "unifi_get_clients", "unifi_get_client_details", "unifi_block_client",
     "unifi_unblock_client",
     "unifi_get_networks", "unifi_create_network", "unifi_update_network",
     "unifi_delete_network"}

LegacyFirewallTools ==
    {"unifi_get_firewall_rules", "unifi_create_firewall_rule",
     "unifi_update_firewall_rule", "unifi_delete_firewall_rule"}

ZbfTools ==
    {"unifi_get_zones", "unifi_create_zone", "unifi_update_zone",
     "unifi_delete_zone", "unifi_get_zone_policies", "unifi_create_zone_policy",
     "unifi_update_zone_policy", "unifi_delete_zone_policy",
     "unifi_get_zone_matrix", "unifi_block_app_in_zone"}

MonitoringTools ==
    {"unifi_get_site_stats", "unifi_get_bandwidth_usage", "unifi_get_events",
     "unifi_get_alerts"}

\* The availability map getToolAvailability builds from a snapshot.  A name
\* outside its domain is a key the map does not have.
getToolAvailability(capabilities) ==
    [n \in AlwaysAvailableTools \cup LegacyFirewallTools \cup ZbfTools
            \cup MonitoringTools |->
        IF n \in AlwaysAvailableTools THEN [available |-> TRUE, reason |-> ""]
        ELSE IF n \in LegacyFirewallTools
        THEN IF capabilities.supportsLegacyFirewall
             THEN [available |-> TRUE,
                   reason |-> IF Len(capabilities.deprecatedEndpoints) > 0
                              THEN "Available but deprecated. Consider using Zone-Based Firewall tools."
                              ELSE ""]
             ELSE [available |-> FALSE,
                   reason |-> "Legacy firewall not supported in this version"]
        ELSE IF n \in ZbfTools
        THEN IF capabilities.supportsZBF
             THEN [available |-> TRUE, reason |-> ""]
             ELSE [available |-> FALSE,
                   reason |-> "Zone-Based Firewall not supported"]
        ELSE IF isVersionAtLeast(capabilities.version, ADVANCED_STATS_MINIMUM)
             THEN [available |-> TRUE, reason |-> ""]
             ELSE [available |-> FALSE,
                   reason |-> "Advanced monitoring not supported"]]

\* availability?.available for toolAvailability[toolName]
IsAvailable(toolAvailability, toolName) ==
    toolName \in DOMAIN toolAvailability /\ toolAvailability[toolName].available

\* ------------------------------------------------------------------------
\* Tool descriptors
\* ------------------------------------------------------------------------

ToolCategory ==
    <<"connection", "devices", "clients", "firewall-legacy", "firewall-zbf",
      "networks", "groups", "monitoring", "automation">>

Categories == {ToolCategory[i] : i \in 1..Len(ToolCategory)}

Tool(name, category, requiresConnection, requiresVersion) ==
    [name |-> name, category |-> category,
     requiresConnection |-> requiresConnection,
     requiresVersion |-> requiresVersion]

getConnectionStatusTool ==
    Tool("unifi_get_connection_status", "connection", FALSE, None)
getDevicesTool == Tool("unifi_get_devices", "devices", TRUE, None)
getZonesTool == Tool("unifi_get_zones", "firewall-zbf", TRUE, Some(V_9_0_0))

\* A descriptor that carries the name of getDevicesTool under another
\* category: what register() receives when a tool is redefined.
recategorizedDevicesTool == Tool("unifi_get_devices", "clients", TRUE, None)

\* A descriptor outside the firewall categories that declares a version
\* requirement, one that every controller of the model satisfies.
versionedDevicesTool == Tool("unifi_get_devices", "devices", TRUE, Some(V_6_0_0))

\* The descriptors the model registers.
Descriptors ==
    {getConnectionStatusTool, getDevicesTool, getZonesTool}

\* The registerBatch calls the model makes.
Batches ==
    {<<getConnectionStatusTool, getDevicesTool>>}

ToolNames == {d.name : d \in Descriptors}

\* A legacy firewall tool: it requires a connection and declares no version,
\* so only the dependency list stands between the connection check and its
\* handler.
getFirewallRulesTool ==
    Tool("unifi_get_firewall_rules", "firewall-legacy", TRUE, None)

\* The keys the registry's maps can hold in the model.
RegistryKeys == ToolNames \cup {getFirewallRulesTool.name}

\* A name no descriptor has.
NonExistent == "non_existent"


ProbeOutcomes == {Some(si) : si \in SystemInfos} \cup {None}

\* ------------------------------------------------------------------------
\* UniFiClient: connection state
\* ------------------------------------------------------------------------

isConnected(info) == info.isConnected /\ info.isAuthenticated

\* ------------------------------------------------------------------------
\* ToolRegistry: helpers
\* ------------------------------------------------------------------------

extractDependencies(tool) ==
    (IF tool.requiresConnection THEN <<"unifi_connect">> ELSE <<>>)
    \o (IF tool.requiresVersion # None THEN <<"version_check">> ELSE <<>>)
    \o (CASE tool.category = "firewall-zbf" -> <<"zbf_support">>
          [] tool.category = "firewall-legacy" -> <<"legacy_firewall_support">>
          [] OTHER -> <<>>)

InList(list, x) == \E i \in 1..Len(list) : list[i] = x

addToCategory(cats, category, toolName) ==
    IF InList(cats[category], toolName) THEN cats
    ELSE [cats EXCEPT ![category] = Append(@, toolName)]

RemoveFromList(list, x) ==
    IF ~InList(list, x) THEN list
    ELSE LET k == CHOOSE i \in 1..Len(list) :
                      list[i] = x /\ \A j \in 1..(i - 1) : list[j] # x
         IN  SubSeq(list, 1, k - 1) \o SubSeq(list, k + 1, Len(list))

removeFromCategory(cats, category, toolName) ==
    [cats EXCEPT ![category] = RemoveFromList(@, toolName)]

getCategoryFeature(category) ==
    CASE category = "firewall-zbf" -> "zbf"
      [] category = "firewall-legacy" -> "legacy-firewall"
      [] category = "monitoring" -> "monitoring"
      [] category = "automation" -> "automation"
      [] OTHER -> "basic"

\* The registry's three maps after register(tool) at time t.
register(reg, tool, t) ==
    LET entry == [tool |-> tool, registered |-> t, enabled |-> TRUE,
                  usageCount |-> 0, errorCount |-> 0, lastUsed |-> None,
                  dependencies |-> extractDependencies(tool)]
    IN  [tools |-> [reg.tools EXCEPT ![tool.name] = Some(entry)],
         categories |-> addToCategory(reg.categories, tool.category, tool.name),
         dependencies |-> [reg.dependencies EXCEPT
                               ![tool.name] = Some(entry.dependencies)]]

RECURSIVE registerBatch(_, _, _)
registerBatch(reg, batch, t) ==
    IF Len(batch) = 0 THEN reg
    ELSE registerBatch(register(reg, Head(batch), t), Tail(batch), t)

\* Mutant: usage counted for successful invocations only.
updateUsageStats_SuccessOnly(entry, success, t) ==
    [entry EXCEPT !.usageCount = IF success THEN @ + 1 ELSE @,
                  !.lastUsed = Some(t),
                  !.errorCount = IF success THEN @ ELSE @ + 1]

\* entry after updateUsageStats(toolName, executionTime, success) at time t
updateUsageStats(entry, success, t) ==
    [entry EXCEPT !.usageCount = @ + 1,
                  !.lastUsed = Some(t),
                  !.errorCount = IF success THEN @ ELSE @ + 1]

\* Mutant: disabled tools are listed too.
getAllTools_IncludingDisabled(tls) == {n \in DOMAIN tls : tls[n] # None}

getAllTools(tls) == {n \in DOMAIN tls : tls[n] # None /\ Val(tls[n]).enabled}

\* getTool(name): the descriptor of an enabled entry, undefined otherwise.
getTool(tls, name) ==
    IF name \in DOMAIN tls /\ tls[name] # None /\ Val(tls[name]).enabled
    THEN Some(Val(tls[name]).tool)
    ELSE None

getAllToolsForDocumentation(tls) == {n \in DOMAIN tls : tls[n] # None}

getToolsByCategory(tls, cats, category) ==
    {n \in DOMAIN tls :
        InList(cats[category], n) /\ tls[n] # None /\ Val(tls[n]).enabled}

\* Mutant: nothing listed when detection fails.
getAvailableTools_FailClosed(tls, det) ==
    IF det.ok
    THEN {n \in DOMAIN tls :
             /\ tls[n] # None
             /\ Val(tls[n]).enabled
             /\ IsAvailable(getToolAvailability(Val(det.caps)), n)}
    ELSE {}

\* getAvailableTools, given the outcome det of the detectCapabilities call
\* that getToolAvailability makes.
getAvailableTools(tls, det) ==
    IF det.ok
    THEN {n \in DOMAIN tls :
             /\ tls[n] # None
             /\ Val(tls[n]).enabled
             /\ IsAvailable(getToolAvailability(Val(det.caps)), n)}
    ELSE getAllTools(tls)

\* Mutant: the disconnected listing filtered by the enabled flag.
getToolsForMCP_EnabledOnly(tls, info, det) ==
    IF ~isConnected(info)
    THEN getAllTools(tls)
    ELSE getAvailableTools(tls, det)

\* getToolsForMCP, given the connection state and the same outcome.
getToolsForMCP(tls, info, det) ==
    IF ~isConnected(info)
    THEN getAllToolsForDocumentation(tls)
    ELSE getAvailableTools(tls, det)

\* What one dependency of the list does in validateDependencies, det being
\* the outcome of the detectCapabilities call validateFeature makes: "ok" or
\* the code of the error thrown.
IsFeatureDependency(dependency) ==
    dependency \in {"zbf_support", "legacy_firewall_support"}

DependencyCode(dependency, info, det) ==
    CASE dependency = "unifi_connect" ->
             IF ~isConnected(info) THEN "CONNECTION_REQUIRED" ELSE "ok"
      [] dependency = "zbf_support" ->
             IF ~det.ok THEN "CAPABILITY_DETECTION_FAILED"
             ELSE validateFeature("zbf", Val(det.caps))
      [] dependency = "legacy_firewall_support" ->
             IF ~det.ok THEN "CAPABILITY_DETECTION_FAILED"
             ELSE validateFeature("legacy-firewall", Val(det.caps))
      [] OTHER -> "ok"

\* The loop of validateDependencies, det being the outcome of the
\* detectCapabilities call the first feature dependency reached makes (a
\* later one is answered from the snapshot just cached): the loop stops at
\* the first dependency that throws.  The result is the code of that error
\* ("ok" when none is thrown) and the detector's fields afterwards.
DependenciesChecked(deps, info, cache, ts, det) ==
    LET failing == {i \in 1..Len(deps) :
                       DependencyCode(deps[i], info, det) # "ok"}
        last == IF failing = {} THEN Len(deps)
                ELSE CHOOSE i \in failing : \A j \in failing : i <= j
        detected == \E i \in 1..last : IsFeatureDependency(deps[i])
    IN  [code |-> IF failing = {} THEN "ok"
                  ELSE DependencyCode(deps[last], info, det),
         cache |-> IF detected THEN det.cache ELSE cache,
         ts |-> IF detected THEN det.ts ELSE ts]

\* Mutant: the dependency list is not validated.
validateDependencies_Skipped(deps, info, cache, ts, t, probe) ==
    [code |-> "ok", cache |-> cache, ts |-> ts]

validateDependencies(deps, info, cache, ts, t, probe) ==
    DependenciesChecked(deps, info, cache, ts,
                        detectCapabilities(cache, ts, t, probe, 0))

\* What a handler can do: return a successful result, return a result with
\* success = false, throw a UniFiMCPError, throw any other error.
HandlerOutcomes == {"ok", "fail", "throwTyped", "throwOther"}

\* The code a handler-thrown UniFiMCPError carries in the model.
HandlerErrorCode == "VALIDATION_ERROR"

Result(op, name, threw, success, code, handler, list) ==
    [op |-> op, name |-> name, threw |-> threw, success |-> success,
     code |-> code, handler |-> handler, list |-> list]

NoResult == Result("init", "", FALSE, TRUE, "", FALSE, {})

TotalUsage(tls) ==
    LET RECURSIVE Sum(_)
        Sum(S) == IF S = {} THEN 0
                  ELSE LET n == CHOOSE x \in S : TRUE
                       IN  (IF tls[n] = None THEN 0 ELSE Val(tls[n]).usageCount)
                           + Sum(S \ {n})
    IN  Sum(DOMAIN tls)

\* ------------------------------------------------------------------------
\* ToolRegistry.executeTool
\* ------------------------------------------------------------------------

\* Mutant: the connection check made before the enabled check.
PreconditionFailure_ConnectionFirst(tls, info, toolName) ==
    IF toolName \notin DOMAIN tls \/ tls[toolName] = None
    THEN "TOOL_NOT_FOUND"
    ELSE IF Val(tls[toolName]).tool.requiresConnection /\ ~isConnected(info)
    THEN "CONNECTION_REQUIRED"
    ELSE IF ~Val(tls[toolName]).enabled
    THEN "TOOL_DISABLED"
    ELSE "ok"

\* The lookup, enabled and connection checks that open executeTool: the code
\* of the error the first failing one throws, "ok" when all three pass.
PreconditionFailure(tls, info, toolName) ==
    IF toolName \notin DOMAIN tls \/ tls[toolName] = None
    THEN "TOOL_NOT_FOUND"
    ELSE IF ~Val(tls[toolName]).enabled
    THEN "TOOL_DISABLED"
    ELSE IF Val(tls[toolName]).tool.requiresConnection /\ ~isConnected(info)
    THEN "CONNECTION_REQUIRED"
    ELSE "ok"

\* executeTool throws a UniFiMCPError with this code.
Thrown(tls, info, toolName, code, cache, ts) ==
    [ret |-> Result("executeTool", toolName, TRUE, FALSE, code, FALSE, {}),
     tools |-> tls, info |-> info, cache |-> cache, ts |-> ts]

\* The try block of executeTool, dv being the outcome of validateDependencies
\* and h what the handler does if it is called.
TryBlock(tls, info, t, toolName, h, dv) ==
    LET entry == Val(tls[toolName])
        failed == (dv.code # "ok") \/ h \in {"throwTyped", "throwOther"}
        code == IF dv.code # "ok" THEN dv.code
                ELSE IF h = "throwTyped" THEN HandlerErrorCode
                ELSE IF h = "throwOther" THEN "EXECUTION_ERROR"
                ELSE IF h = "fail" THEN "HANDLER_FAILURE"
                ELSE ""
        \* catch branch: entry.errorCount++ and then updateUsageStats(.., false)
        after == IF failed
                 THEN updateUsageStats(
                          [entry EXCEPT !.errorCount = @ + 1], FALSE, t)
                 ELSE updateUsageStats(entry, h = "ok", t)
    IN  [ret |-> Result("executeTool", toolName, FALSE,
                        ~failed /\ h = "ok", code, dv.code = "ok", {}),
         tools |-> [tls EXCEPT ![toolName] = Some(after)],
         info |-> info, cache |-> dv.cache, ts |-> dv.ts]

\* The feature check of executeTool, made for a tool with requiresVersion:
\* det is the outcome of the detectCapabilities call validateFeature makes.
FeatureChecked(tls, deps, info, t, toolName, h, probe, det) ==
    LET entry == Val(tls[toolName])
        featureCode ==
            IF entry.tool.requiresVersion = None THEN "ok"
            ELSE IF ~det.ok THEN "CAPABILITY_DETECTION_FAILED"
            ELSE validateFeature(getCategoryFeature(entry.tool.category),
                                 Val(det.caps))
    IN  IF featureCode # "ok"
        THEN Thrown(tls, info, toolName, "FEATURE_NOT_AVAILABLE",
                    det.cache, det.ts)
        ELSE TryBlock(tls, info, t, toolName, h,
                      validateDependencies(deps, info, det.cache, det.ts, t,
                                           probe))

\* The checks of executeTool once the first failing precondition is known.
PreconditionsChecked(tls, deps, info, cache, ts, t, toolName, h, probe, failure) ==
    IF failure # "ok"
    THEN Thrown(tls, info, toolName, failure, cache, ts)
    ELSE FeatureChecked(tls, deps, info, t, toolName, h, probe,
                        IF Val(tls[toolName]).tool.requiresVersion # None
                        THEN detectCapabilities(cache, ts, t, probe, 0)
                        ELSE [ok |-> TRUE, caps |-> None, cache |-> cache,
                              ts |-> ts])

\* One executeTool(toolName, params) call at time t.  deps is the dependency
\* list stored for the name, h what the handler does if it is called, probe
\* what getSystemInfo gives if it is called.  The result holds what the call
\* returns or throws (ret) and the registry entries, connection state and
\* detector fields afterwards.
executeTool(tls, deps, info, cache, ts, t, toolName, h, probe) ==
    PreconditionsChecked(tls, deps, info, cache, ts, t, toolName, h, probe,
                         PreconditionFailure(tls, info, toolName))

\* ------------------------------------------------------------------------
\* The registry, the detector cache and the connection: actions
\* ------------------------------------------------------------------------

Registry == [tools |-> tools, categories |-> categories,
             dependencies |-> dependencies]

SetRegistry(reg) ==
    /\ tools' = reg.tools
    /\ categories' = reg.categories
    /\ dependencies' = reg.dependencies

Register(tool) ==
    /\ SetRegistry(register(Registry, tool, now))
    /\ ret' = Result("register", tool.name, FALSE, TRUE, "", FALSE, {tool.name})
    /\ UNCHANGED <<connectionInfo, cachedCapabilities, cacheTimestamp, now,
                   probes, rt, rl, client, detections>>

RegisterBatch(batch) ==
    /\ SetRegistry(registerBatch(Registry, batch, now))
    /\ ret' = Result("registerBatch", "", FALSE, TRUE, "", FALSE,
                     {batch[i].name : i \in 1..Len(batch)})
    /\ UNCHANGED <<connectionInfo, cachedCapabilities, cacheTimestamp, now,
                   probes, rt, rl, client, detections>>

Unregister(toolName) ==
    /\ IF tools[toolName] = None
       THEN /\ UNCHANGED <<tools, categories, dependencies>>
            /\ ret' = Result("unregister", toolName, FALSE, FALSE, "", FALSE, {})
       ELSE /\ categories' = removeFromCategory(
                                 categories, Val(tools[toolName]).tool.category,
                                 toolName)
            /\ dependencies' = [dependencies EXCEPT ![toolName] = None]
            /\ tools' = [tools EXCEPT ![toolName] = None]
            /\ ret' = Result("unregister", toolName, FALSE, TRUE, "", FALSE, {})
    /\ UNCHANGED <<connectionInfo, cachedCapabilities, cacheTimestamp, now,
                   probes, rt, rl, client, detections>>

\* Mutant: the entry rebuilt, and its counters with it, when the flag is set.
SetToolEnabled_Recreate(toolName, enabled) ==
    /\ IF tools[toolName] = None
       THEN /\ UNCHANGED tools
            /\ ret' = Result("setToolEnabled", toolName, FALSE, FALSE, "", FALSE, {})
       ELSE /\ tools' = [tools EXCEPT
                              ![toolName] = Some([Val(@) EXCEPT
                                                      !.enabled = enabled,
                                                      !.usageCount = 0,
                                                      !.errorCount = 0])]
            /\ ret' = Result("setToolEnabled", toolName, FALSE, TRUE, "", FALSE, {})
    /\ UNCHANGED <<categories, dependencies, connectionInfo, cachedCapabilities,
                   cacheTimestamp, now, probes, rt, rl, client, detections>>

SetToolEnabled(toolName, enabled) ==
    /\ IF tools[toolName] = None
       THEN /\ UNCHANGED tools
            /\ ret' = Result("setToolEnabled", toolName, FALSE, FALSE, "", FALSE, {})
       ELSE /\ tools' = [tools EXCEPT
                              ![toolName] = Some([Val(@) EXCEPT !.enabled = enabled])]
            /\ ret' = Result("setToolEnabled", toolName, FALSE, TRUE, "", FALSE, {})
    /\ UNCHANGED <<categories, dependencies, connectionInfo, cachedCapabilities,
                   cacheTimestamp, now, probes, rt, rl, client, detections>>

ExecuteTool(toolName, h, probe) ==
    /\ TotalUsage(tools) < MaxUsage
    /\ \E r \in {executeTool(tools,
                            IF toolName \in DOMAIN dependencies
                               /\ dependencies[toolName] # None
                            THEN Val(dependencies[toolName]) ELSE <<>>,
                            connectionInfo, cachedCapabilities,
                            cacheTimestamp, now, toolName, h, probe)} :
           /\ tools' = r.tools
           /\ connectionInfo' = r.info
           /\ cachedCapabilities' = r.cache
           /\ cacheTimestamp' = r.ts
           /\ ret' = r.ret
    /\ UNCHANGED <<categories, dependencies, now, probes, rt, rl, client, detections>>

GetAvailableTools(probe) ==
    /\ \E det \in {detectCapabilities(cachedCapabilities, cacheTimestamp, now,
                                       probe, 0)} :
           /\ cachedCapabilities' = det.cache
           /\ cacheTimestamp' = det.ts
           /\ ret' = Result("getAvailableTools", "", FALSE, TRUE, "", FALSE,
                            getAvailableTools(tools, det))
    /\ UNCHANGED <<tools, categories, dependencies, connectionInfo, now,
                   probes, rt, rl, client, detections>>

GetToolsForMCP(probe) ==
    /\ \E det \in {IF isConnected(connectionInfo)
                    THEN detectCapabilities(cachedCapabilities, cacheTimestamp,
                                            now, probe, 0)
                    ELSE [ok |-> TRUE, caps |-> None,
                          cache |-> cachedCapabilities,
                          ts |-> cacheTimestamp]} :
           /\ cachedCapabilities' = det.cache
           /\ cacheTimestamp' = det.ts
           /\ ret' = Result("getToolsForMCP", "", FALSE, TRUE, "", FALSE,
                            getToolsForMCP(tools, connectionInfo, det))
    /\ UNCHANGED <<tools, categories, dependencies, connectionInfo, now,
                   probes, rt, rl, client, detections>>

\* connect() as the registry sees it, which reads only isConnected(): on
\* success both flags are set, on failure both are cleared.
Connect(ok) ==
    /\ connectionInfo' = [isConnected |-> ok, isAuthenticated |-> ok]
    /\ ret' = Result("connect", "", ~ok, ok, "", FALSE, {})
    /\ UNCHANGED <<tools, categories, dependencies, cachedCapabilities,
                   cacheTimestamp, now, probes, rt, rl, client, detections>>

\* Mutant: disconnect() rejects when the client is not connected.
Disconnect_RejectsWhenDisconnected ==
    /\ connectionInfo' = [isConnected |-> FALSE, isAuthenticated |-> FALSE]
    /\ client' = [client EXCEPT !.requestQueue = <<>>,
                                !.disconnected = (client.pc # "idle")]
    /\ ret' = Result("disconnect", "", ~connectionInfo.isConnected,
                     connectionInfo.isConnected, "", FALSE, {})
    /\ UNCHANGED <<tools, categories, dependencies, cachedCapabilities,
                   cacheTimestamp, now, probes, rt, rl, detections>>

\* disconnect(): both flags are cleared and the request queue is emptied.
Disconnect ==
    /\ connectionInfo' = [isConnected |-> FALSE, isAuthenticated |-> FALSE]
    /\ client' = [client EXCEPT !.requestQueue = <<>>,
                                !.disconnected = (client.pc # "idle")]
    /\ ret' = Result("disconnect", "", FALSE, TRUE, "", FALSE, {})
    /\ UNCHANGED <<tools, categories, dependencies, cachedCapabilities,
                   cacheTimestamp, now, probes, rt, rl, detections>>

\* A detectCapabilities() call of one caller: where it is, the snapshot it
\* returned, and whether clearCache() ran while its probe was in flight.
IdleDetection == [pc |-> "idle", caps |-> None, cleared |-> FALSE]

Detectors == 1..NumDetectors

NoDetections == [c \in Detectors |-> IdleDetection]

\* The calls whose probe is in flight are marked.
ClearedWhileProbing(d) ==
    [c \in DOMAIN d |->
        [d[c] EXCEPT !.cleared = (@ \/ d[c].pc = "probing")]]

\* clearCache(): both fields are set to null.
ClearCache ==
    /\ cachedCapabilities' = None
    /\ cacheTimestamp' = None
    /\ detections' = ClearedWhileProbing(detections)
    /\ ret' = Result("clearCache", "", FALSE, TRUE, "", FALSE, {})
    /\ UNCHANGED <<tools, categories, dependencies, connectionInfo, now,
                   probes, rt, rl, client>>

\* ------------------------------------------------------------------------
\* ErrorRecovery.withRetry
\* ------------------------------------------------------------------------

\* ErrorRecovery.defaultRetryConfig
defaultMaxAttempts == 3
baseDelay == 1000
maxDelay == 10000

\* The error classes an operation may throw ("Error" is any error that is
\* not a UniFiMCPError), and the retryable flag each constructor sets.
RetryableErrors == {"ConnectionError", "NetworkTimeoutError", "RateLimitError"}

NonRetryableErrors == {"AuthenticationError", "APIKeyError", "ValidationError"}

ErrorKinds == RetryableErrors \cup NonRetryableErrors \cup {"Error"}

OperationOutcomes == {"ok"} \cup ErrorKinds

Retryable(err) == err \in RetryableErrors

IsUniFiMCPError(err) == err \in RetryableErrors \cup NonRetryableErrors

\* Mutant: every error is retried.
retryCondition_Always(err) == TRUE

\* defaultRetryConfig.retryCondition
retryCondition(err) == IF IsUniFiMCPError(err) THEN Retryable(err) ELSE FALSE

Min(a, b) == IF a <= b THEN a ELSE b

\* The delay before the next attempt, without the random jitter.
retryDelay(attempt, exponentialBackoff) ==
    IF exponentialBackoff
    THEN Min(baseDelay * 2 ^ (attempt - 1), maxDelay)
    ELSE baseDelay

\* Math.random() * 1000 lies in [0, 1000): the two ends of the range, in ms.
Jitters == {0, 999}

\* The retry-after header of a 429 response, in seconds, as the response
\* interceptor hands it to RateLimitError: absent, or parseInt of its value.
RetryAfterHints == {None, Some(1), Some(30)}

\* One withRetry call: pc is the position in the loop, attempt the local
\* counter, calls the number of times operation() was invoked, seen the
\* outcomes of those invocations, result how the call ended, retryAfter the
\* details.retryAfter of lastError, delay the time in ms passed to setTimeout
\* and jitter the random part of it.
IdleRetry ==
    [pc |-> "idle", maxAttempts |-> defaultMaxAttempts,
     exponentialBackoff |-> TRUE, attempt |-> 0, calls |-> 0, seen |-> <<>>,
     result |-> "none", retryAfter |-> None, delay |-> 0, jitter |-> 0]

registryVars == <<tools, categories, dependencies, connectionInfo,
                  cachedCapabilities, cacheTimestamp, now, probes, ret>>

\* withRetry(operation, {maxAttempts, exponentialBackoff}) is entered: the
\* loop test is evaluated for the first time.
WithRetry(maxAttempts, exponentialBackoff) ==
    /\ rt.pc = "idle"
    /\ rt' = [IdleRetry EXCEPT
                  !.maxAttempts = maxAttempts,
                  !.exponentialBackoff = exponentialBackoff,
                  !.pc = IF 0 < maxAttempts THEN "calling" ELSE "done",
                  !.result = IF 0 < maxAttempts THEN "none" ELSE "thrown"]
    /\ UNCHANGED <<registryVars, rl, client, detections>>

\* operation() is awaited: it resolves ("ok") or rejects with an error; a
\* RateLimitError carries the retry-after hint of the 429 response. When the
\* error is retried the delay is the backoff delay plus the jitter.
Operation(o, hint, random) ==
    /\ rt.pc = "calling"
    /\ o # "RateLimitError" => hint = None
    /\ IF o = "ok"
       THEN /\ random = 0
            /\ rt' = [rt EXCEPT !.calls = @ + 1, !.seen = Append(@, o),
                                !.pc = "done", !.result = "success"]
       ELSE LET attempt == rt.attempt + 1
            IN  IF attempt >= rt.maxAttempts \/ ~retryCondition(o)
                THEN /\ random = 0
                     /\ rt' = [rt EXCEPT !.calls = @ + 1,
                                         !.seen = Append(@, o),
                                         !.attempt = attempt,
                                         !.retryAfter = hint,
                                         !.pc = "done", !.result = "thrown"]
                ELSE rt' = [rt EXCEPT !.calls = @ + 1, !.seen = Append(@, o),
                                      !.attempt = attempt,
                                      !.retryAfter = hint,
                                      !.pc = "sleeping",
                                      !.jitter = random,
                                      !.delay = retryDelay(attempt,
                                                  rt.exponentialBackoff)
                                                + random]
    /\ UNCHANGED <<registryVars, rl, client, detections>>

\* The delay timer fires and the loop test is evaluated again.
Backoff ==
    /\ rt.pc = "sleeping"
    /\ rt' = [rt EXCEPT
                  !.pc = IF rt.attempt < rt.maxAttempts THEN "calling"
                         ELSE "done",
                  !.result = IF rt.attempt < rt.maxAttempts THEN "none"
                             ELSE "thrown",
                  !.delay = 0, !.jitter = 0]
    /\ UNCHANGED <<registryVars, rl, client, detections>>

\* ------------------------------------------------------------------------
\* UniFiClient.enforceRateLimit
\* ------------------------------------------------------------------------

Callers == 1..NumCallers

Capacities == 1..MaxCapacity

IdleCaller == [pc |-> "idle", wakeAt |-> 0, windowStart |-> 0, waited |-> FALSE]

\* The bucket after construction with requestsPerMinute = capacity:
\* rateLimitTokens full, lastRateLimitReset the construction time.  granted
\* counts the tokens taken since the bucket was last filled.
RateLimiter(capacity) ==
    [capacity |-> capacity, tokens |-> capacity, lastRateLimitReset |-> 0,
     granted |-> 0, callers |-> [c \in Callers |-> IdleCaller]]

IdleRate == RateLimiter(1)

\* Mutant: the wait is the time already elapsed in the window.
waitTime_Elapsed(timeSinceReset) == timeSinceReset

\* waitTime = 60000 - timeSinceReset
waitTime(timeSinceReset) == TicksPerWindow - timeSinceReset

\* Caller c enters enforceRateLimit at time now and runs it up to its
\* return or up to the await of the timer.
EnforceRateLimit(c) ==
    /\ rl.callers[c].pc # "waiting"
    /\ LET timeSinceReset == now - rl.lastRateLimitReset
           reset == timeSinceReset >= TicksPerWindow
           tokens1 == IF reset THEN rl.capacity ELSE rl.tokens
           lastReset1 == IF reset THEN now ELSE rl.lastRateLimitReset
           granted1 == IF reset THEN 0 ELSE rl.granted
       IN  IF tokens1 <= 0
           THEN rl' = [rl EXCEPT
                          !.tokens = tokens1,
                          !.lastRateLimitReset = lastReset1,
                          !.granted = granted1,
                          !.callers[c] =
                              [pc |-> "waiting",
                               wakeAt |-> now + waitTime(timeSinceReset),
                               windowStart |-> lastReset1,
                               waited |-> TRUE]]
           ELSE rl' = [rl EXCEPT
                          !.tokens = tokens1 - 1,
                          !.lastRateLimitReset = lastReset1,
                          !.granted = granted1 + 1,
                          !.callers[c] = [IdleCaller EXCEPT !.pc = "passed"]]
    /\ UNCHANGED <<registryVars, rt, client, detections>>

\* The timer of caller c fires: the bucket is filled, the window restarted
\* and one token taken.
Resume(c) ==
    /\ rl.callers[c].pc = "waiting"
    /\ now >= rl.callers[c].wakeAt
    /\ rl' = [rl EXCEPT
                  !.tokens = rl.capacity - 1,
                  !.lastRateLimitReset = now,
                  !.granted = 1,
                  !.callers[c] = [@ EXCEPT !.pc = "passed", !.wakeAt = 0]]
    /\ UNCHANGED <<registryVars, rt, client, detections>>

\* Time passes; a timer that is due fires before the clock moves on.
Tick ==
    /\ now < MaxTime
    /\ \A c \in Callers :
           rl.callers[c].pc = "waiting" => now < rl.callers[c].wakeAt
    /\ now' = now + 1
    /\ UNCHANGED <<tools, categories, dependencies, connectionInfo,
                   cachedCapabilities, cacheTimestamp, probes, ret, rt, rl, client, detections>>

\* ------------------------------------------------------------------------
\* VersionDetector: calls over time
\* ------------------------------------------------------------------------

\* How many ticks a getSystemInfo round trip may take.
ProbeDurations == {0, 1}

DetectResult(op, threw, caps, probed) ==
    [op |-> op, threw |-> threw, caps |-> caps, probed |-> probed]

DetectCapabilities(probe, d) ==
    /\ probes < MaxProbes
    /\ \E det \in {detectCapabilities(cachedCapabilities, cacheTimestamp, now,
                                       probe, d)} :
           /\ det.t <= MaxTime
           /\ cachedCapabilities' = det.cache
           /\ cacheTimestamp' = det.ts
           /\ now' = det.t
           /\ probes' = IF det.probed THEN probes + 1 ELSE probes
           /\ ret' = DetectResult("detectCapabilities", ~det.ok, det.caps,
                                  det.probed)
    /\ UNCHANGED <<tools, categories, dependencies, connectionInfo, rt, rl, client, detections>>

\* forceDetection(): clearCache() followed by detectCapabilities().
ForceDetection(probe, d) ==
    /\ probes < MaxProbes
    /\ \E det \in {detectCapabilities(None, None, now, probe, d)} :
           /\ det.t <= MaxTime
           /\ cachedCapabilities' = det.cache
           /\ cacheTimestamp' = det.ts
           /\ now' = det.t
           /\ probes' = IF det.probed THEN probes + 1 ELSE probes
           /\ ret' = DetectResult("forceDetection", ~det.ok, det.caps,
                                  det.probed)
    /\ UNCHANGED <<tools, categories, dependencies, connectionInfo, rt, rl, client, detections>>

\* ------------------------------------------------------------------------
\* VersionDetector: concurrent calls
\* ------------------------------------------------------------------------

\* The probe of a call in flight is answered: what detectCapabilities does
\* after its await, the cache being whatever it is by then.
Answered(cache, ts, t, probe) ==
    IF probe # None
    THEN Detected(Analyzed(Val(probe)), t)
    ELSE [ok |-> FALSE, caps |-> None, cache |-> cache, ts |-> ts,
          probed |-> TRUE, t |-> t]

\* Mutant: a call that finds a probe in flight waits for it and issues none.
StartDetection_SingleFlight(c) ==
    /\ detections[c].pc # "probing"
    /\ IF isCacheValid(cachedCapabilities, cacheTimestamp, now)
       THEN /\ detections' = [detections EXCEPT
                                  ![c] = [pc |-> "returned",
                                          caps |-> cachedCapabilities,
                                          cleared |-> FALSE]]
            /\ ret' = DetectResult("detectCapabilities", FALSE,
                                   cachedCapabilities, FALSE)
            /\ UNCHANGED probes
       ELSE /\ probes < MaxProbes
            /\ detections' = [detections EXCEPT
                                  ![c] = [pc |-> "probing", caps |-> None,
                                          cleared |-> FALSE]]
            /\ probes' = IF \E o \in Detectors : detections[o].pc = "probing"
                         THEN probes ELSE probes + 1
            /\ UNCHANGED ret
    /\ UNCHANGED <<tools, categories, dependencies, connectionInfo,
                   cachedCapabilities, cacheTimestamp, now, rt, rl, client>>

\* Caller c calls detectCapabilities(): a valid snapshot is returned at
\* once, otherwise getSystemInfo is called and awaited.
StartDetection(c) ==
    /\ detections[c].pc # "probing"
    /\ IF isCacheValid(cachedCapabilities, cacheTimestamp, now)
       THEN /\ detections' = [detections EXCEPT
                                  ![c] = [pc |-> "returned",
                                          caps |-> cachedCapabilities,
                                          cleared |-> FALSE]]
            /\ ret' = DetectResult("detectCapabilities", FALSE,
                                   cachedCapabilities, FALSE)
            /\ UNCHANGED probes
       ELSE /\ probes < MaxProbes
            /\ detections' = [detections EXCEPT
                                  ![c] = [pc |-> "probing", caps |-> None,
                                          cleared |-> FALSE]]
            /\ probes' = probes + 1
            /\ UNCHANGED ret
    /\ UNCHANGED <<tools, categories, dependencies, connectionInfo,
                   cachedCapabilities, cacheTimestamp, now, rt, rl, client>>

\* Caller c calls forceDetection(): clearCache(), then detectCapabilities(),
\* which finds no snapshot and awaits getSystemInfo.
StartForceDetection(c) ==
    /\ detections[c].pc # "probing"
    /\ probes < MaxProbes
    /\ cachedCapabilities' = None
    /\ cacheTimestamp' = None
    /\ detections' = [ClearedWhileProbing(detections) EXCEPT
                          ![c] = [pc |-> "probing", caps |-> None,
                                  cleared |-> FALSE]]
    /\ probes' = probes + 1
    /\ UNCHANGED <<tools, categories, dependencies, connectionInfo, now, ret,
                   rt, rl, client>>

\* The probe of caller c is answered: the snapshot is analysed, stored with
\* the current time and returned, or the call throws
\* CAPABILITY_DETECTION_FAILED.
FinishDetection(c, probe) ==
    /\ detections[c].pc = "probing"
    /\ \E det \in {Answered(cachedCapabilities, cacheTimestamp, now, probe)} :
           /\ cachedCapabilities' = det.cache
           /\ cacheTimestamp' = det.ts
           /\ detections' = [detections EXCEPT
                                 ![c].pc = IF det.ok THEN "returned"
                                           ELSE "threw",
                                 ![c].caps = det.caps]
           /\ ret' = DetectResult("detectCapabilities", ~det.ok, det.caps,
                                  TRUE)
    /\ UNCHANGED <<tools, categories, dependencies, connectionInfo, now,
                   probes, rt, rl, client>>

\* ------------------------------------------------------------------------
\* UniFiClient: the HTTP client and the errors it produces
\* ------------------------------------------------------------------------

\* error.code of a request that got no response: failures of the network
\* layer, and failures of certificate verification, which occur only when
\* the https agent verifies certificates (rejectUnauthorized).
NetworkCodes == {"ECONNREFUSED", "EHOSTUNREACH", "ENOTFOUND", "ETIMEDOUT"}

CertificateCodes ==
    {"CERT_HAS_EXPIRED", "DEPTH_ZERO_SELF_SIGNED_CERT",
     "UNABLE_TO_VERIFY_LEAF_SIGNATURE"}

\* What the transport does with one request: no response and an error code
\* (status 0), or a response with a status and a body.  Bodies: a system-info
\* object without meta, an envelope with rc 'ok' and one element, an envelope
\* with rc 'error', an object whose message names the API key, or nothing.
Transport(code, status, body) ==
    [code |-> code, status |-> status, body |-> body]

Responses ==
    {Transport("", 200, b) : b \in {"systemInfo", "envelope", "envelopeError"}}
        \cup {Transport("", 401, b) : b \in {"apiKeyMessage", ""}}
        \cup {Transport("", s, "") : s \in {204, 403, 429, 503}}

Transports(verifySSL) ==
    {Transport(c, 0, "") :
         c \in NetworkCodes \cup (IF verifySSL THEN CertificateCodes ELSE {})}
        \cup Responses

\* A UniFiMCPError: its code, its message and its retryable flag.
UniFiMCPError(message, code, retryable) ==
    [code |-> code, message |-> message, retryable |-> retryable]

ConnectionError(message, retryable) ==
    UniFiMCPError(message, "CONNECTION_FAILED", retryable)

AuthenticationError(message) ==
    UniFiMCPError(message, "AUTHENTICATION_FAILED", FALSE)

APIKeyError(message) == UniFiMCPError(message, "API_KEY_INVALID", FALSE)

NetworkTimeoutError(message) == UniFiMCPError(message, "NETWORK_TIMEOUT", TRUE)

RateLimitError(message) == UniFiMCPError(message, "API_RATE_LIMITED", TRUE)

NoError == UniFiMCPError("", "", FALSE)

\* error.response?.data?.message || error.message of the error axios raises
\* for the transport outcome t.
ErrorMessage(t) ==
    IF t.body = "apiKeyMessage" THEN "Invalid API key"
    ELSE IF t.status = 0 THEN t.code
    ELSE "Request failed with status code"

\* message.toLowerCase().includes('api key')
MentionsApiKey(message) == message = "Invalid API key"

\* ErrorFactory.fromHttpError, applied to the error axios raises for t.
fromHttpError(t) ==
    LET status == IF t.status # 0 THEN t.status ELSE 500
        message == ErrorMessage(t)
    IN  CASE status = 400 ->
                 UniFiMCPError(message, "VALIDATION_ERROR", FALSE)
          [] status = 401 ->
                 IF MentionsApiKey(message) THEN APIKeyError(message)
                 ELSE AuthenticationError(message)
          [] status = 404 ->
                 UniFiMCPError("Resource not found", "RESOURCE_NOT_FOUND",
                               FALSE)
          [] status = 408 -> NetworkTimeoutError(message)
          [] status = 409 ->
                 UniFiMCPError(message, "RESOURCE_CONFLICT", FALSE)
          [] status = 429 -> RateLimitError(message)
          [] status \in {500, 502, 503, 504} -> ConnectionError(message, TRUE)
          [] OTHER ->
                 UniFiMCPError(message, "INTERNAL_ERROR", status >= 500)

\* code.startsWith('CERT_')
StartsWithCERT(code) == code \in {"CERT_HAS_EXPIRED"}

\* ErrorFactory.fromNetworkError, applied to an error with the given code
\* and message.
fromNetworkError(code, message) ==
    IF code = "ECONNREFUSED"
    THEN ConnectionError("Connection refused", TRUE)
    ELSE IF code = "ENOTFOUND"
    THEN ConnectionError("Host not found", FALSE)
    ELSE IF code \in {"ETIMEDOUT", "ECONNABORTED"}
    THEN NetworkTimeoutError("Network request timed out")
    ELSE IF StartsWithCERT(code) \/ code = "UNABLE_TO_VERIFY_LEAF_SIGNATURE"
    THEN ConnectionError("SSL certificate verification failed", FALSE)
    ELSE ConnectionError(message, TRUE)

\* The response interceptor's error handler: every rejected request leaves
\* the http client as a UniFiMCPError.
ResponseError(t) ==
    IF t.status = 429 THEN RateLimitError("API rate limit exceeded")
    ELSE fromHttpError(t)

\* validateStatus: the default accepts 2xx, the connectivity test accepts
\* every status.
validateStatus(status, acceptAny) ==
    acceptAny \/ (200 <= status /\ status < 300)

\* httpClient.get: resolves with the response, or rejects with the error the
\* response interceptor made of the failure.
HttpGet(t, acceptAny) ==
    IF t.status # 0 /\ validateStatus(t.status, acceptAny)
    THEN [ok |-> TRUE, error |-> NoError]
    ELSE [ok |-> FALSE, error |-> ResponseError(t)]

\* testConnection(): the catch block sees the interceptor's error, whose
\* code is an ErrorCode.
testConnection(t) ==
    LET r == HttpGet(t, TRUE)
    IN  IF r.ok THEN r
        ELSE IF r.error.code = "ECONNREFUSED"
        THEN [ok |-> FALSE,
              error |-> ConnectionError("UniFi controller is not reachable",
                                        TRUE)]
        ELSE [ok |-> FALSE,
              error |-> fromNetworkError(r.error.code, r.error.message)]

\* authenticate(): a UniFiMCPError is not an axios error and is rethrown.
authenticate(t) ==
    LET r == HttpGet(t, FALSE)
    IN  IF ~r.ok THEN r
        ELSE IF t.status # 200
        THEN [ok |-> FALSE,
              error |-> AuthenticationError("Authentication failed with status")]
        ELSE r

\* getSystemInfo(): a body without meta is taken as the system info, an
\* envelope must have rc 'ok' and an element; reading meta.rc of an empty
\* body raises a TypeError, which fromHttpError turns into an error of
\* status 500.
getSystemInfo(t) ==
    LET r == HttpGet(t, FALSE)
    IN  IF ~r.ok THEN r
        ELSE IF t.body \in {"systemInfo", "apiKeyMessage"} THEN r
        ELSE IF t.body = "envelope" THEN r
        ELSE IF t.body = "envelopeError"
        THEN [ok |-> FALSE,
              error |-> UniFiMCPError("Failed to retrieve system information",
                                      "SYSTEM_INFO_ERROR", FALSE)]
        ELSE [ok |-> FALSE, error |-> ConnectionError("TypeError", TRUE)]

\* ------------------------------------------------------------------------
\* UniFiClient: connect, healthCheck
\* ------------------------------------------------------------------------

\* The gateway addresses the model configures.
defaultGatewayIp == "192.168.1.1"

Gateways == {defaultGatewayIp, "10.0.0.1"}

\* A client constructed with the given verifySSL: op is the public method in
\* progress and pc the request it awaits; disconnected tells that
\* disconnect() completed while that method was awaiting a request; lastError and connectionAttempts
\* are the fields of connectionInfo besides the two flags; thrown and failure
\* remember the error that ended the last call and the transport outcome
\* behind it.
NewClient(verifySSL) ==
    [verifySSL |-> verifySSL, gatewayIp |-> defaultGatewayIp,
     requestQueue |-> <<>>, lastError |-> None,
     connectionAttempts |-> 0, op |-> "none", pc |-> "idle",
     thrown |-> None, failure |-> None, disconnected |-> FALSE]

clientVars == <<tools, categories, dependencies, cachedCapabilities,
                cacheTimestamp, now, probes, rt, rl, detections>>

\* The catch block of connect(), and what its caller does with the error:
\* connect() rejects, healthCheck() returns 'unhealthy'.
ConnectFailed(error, t) ==
    /\ connectionInfo' = [isConnected |-> FALSE, isAuthenticated |-> FALSE]
    /\ client' = [client EXCEPT !.lastError = Some(error.message),
                                !.thrown = Some(error),
                                !.failure = Some(t),
                                !.op = "none", !.pc = "idle"]
    /\ ret' = IF client.op = "connect"
              THEN Result("connect", "", TRUE, FALSE, error.code, FALSE, {})
              ELSE Result("healthCheck", "", FALSE, TRUE, "unhealthy", FALSE,
                          {})

\* connect() replaces connectionInfo by a new object without lastError and
\* resolves; healthCheck() goes on to its own getSystemInfo().
ConnectSucceeded ==
    /\ connectionInfo' = [isConnected |-> TRUE, isAuthenticated |-> TRUE]
    /\ client' = [client EXCEPT
                      !.lastError = None,
                      !.op = IF client.op = "connect" THEN "none" ELSE @,
                      !.pc = IF client.op = "connect" THEN "idle"
                             ELSE "healthCheck"]
    /\ ret' = IF client.op = "connect"
              THEN Result("connect", "", FALSE, TRUE, "", FALSE, {})
              ELSE ret

\* connect() is called and awaits testConnection().
ConnectCall ==
    /\ client.pc = "idle"
    /\ client.connectionAttempts < MaxConnectionAttempts
    /\ client' = [client EXCEPT !.connectionAttempts = @ + 1,
                                !.op = "connect", !.pc = "testConnection",
                                !.thrown = None, !.failure = None,
                                !.disconnected = FALSE]
    /\ UNCHANGED <<connectionInfo, ret, clientVars>>

\* The request of testConnection() ends; connect() ignores the value
\* returned and awaits authenticate().
TestConnection(t) ==
    /\ client.pc = "testConnection"
    /\ t \in Transports(client.verifySSL)
    /\ \E r \in {testConnection(t)} :
           IF r.ok
           THEN /\ client' = [client EXCEPT !.pc = "authenticate"]
                /\ UNCHANGED <<connectionInfo, ret>>
           ELSE ConnectFailed(r.error, t)
    /\ UNCHANGED clientVars

\* The request of authenticate() ends; connect() awaits getSystemInfo().
Authenticate(t) ==
    /\ client.pc = "authenticate"
    /\ t \in Transports(client.verifySSL)
    /\ \E r \in {authenticate(t)} :
           IF r.ok
           THEN /\ client' = [client EXCEPT !.pc = "getSystemInfo"]
                /\ UNCHANGED <<connectionInfo, ret>>
           ELSE ConnectFailed(r.error, t)
    /\ UNCHANGED clientVars

\* The request of connect()'s getSystemInfo() ends.
GetSystemInfo(t) ==
    /\ client.pc = "getSystemInfo"
    /\ t \in Transports(client.verifySSL)
    /\ \E r \in {getSystemInfo(t)} :
           IF r.ok THEN ConnectSucceeded ELSE ConnectFailed(r.error, t)
    /\ UNCHANGED clientVars

\* healthCheck() is called: it connects first when the isConnected flag is
\* not set, and then awaits getSystemInfo().
HealthCheckCall ==
    /\ client.pc = "idle"
    /\ IF ~connectionInfo.isConnected
       THEN /\ client.connectionAttempts < MaxConnectionAttempts
            /\ client' = [client EXCEPT !.connectionAttempts = @ + 1,
                                        !.op = "healthCheck",
                                        !.pc = "testConnection",
                                        !.thrown = None, !.failure = None,
                                        !.disconnected = FALSE]
       ELSE client' = [client EXCEPT !.op = "healthCheck",
                                     !.pc = "healthCheck",
                                     !.thrown = None, !.failure = None,
                                     !.disconnected = FALSE]
    /\ UNCHANGED <<connectionInfo, ret, clientVars>>

\* The request of healthCheck()'s getSystemInfo() ends: 'healthy', or the
\* catch block's 'unhealthy'.
HealthCheck(t) ==
    /\ client.pc = "healthCheck"
    /\ t \in Transports(client.verifySSL)
    /\ \E r \in {getSystemInfo(t)} :
           IF r.ok
           THEN /\ client' = [client EXCEPT !.op = "none", !.pc = "idle"]
                /\ ret' = Result("healthCheck", "", FALSE, TRUE, "healthy",
                                 FALSE, {})
           ELSE /\ client' = [client EXCEPT !.op = "none", !.pc = "idle",
                                            !.thrown = Some(r.error),
                                            !.failure = Some(t)]
                /\ ret' = Result("healthCheck", "", FALSE, TRUE, "unhealthy",
                                 FALSE, {})
    /\ UNCHANGED <<connectionInfo, clientVars>>

\* The partial configurations updateConfig is given: a new gateway address,
\* or only options that are not connection-related (gatewayIp absent).
NewConfigs == {[gatewayIp |-> None]} \cup {[gatewayIp |-> Some(g)] : g \in Gateways}

\* Mutant: updateConfig clears isConnected only.
UpdateConfig_KeepsAuthentication(newConfig) ==
    /\ client' = [client EXCEPT
                      !.gatewayIp = IF newConfig.gatewayIp # None
                                    THEN Val(newConfig.gatewayIp) ELSE @]
    /\ connectionInfo' = IF newConfig.gatewayIp # None
                         THEN [connectionInfo EXCEPT !.isConnected = FALSE]
                         ELSE connectionInfo
    /\ ret' = Result("updateConfig", "", FALSE, TRUE, "", FALSE, {})
    /\ UNCHANGED clientVars

\* updateConfig(newConfig): the configuration is merged and, when a
\* connection-related option is given, the HTTP client is recreated and both
\* flags are cleared.
UpdateConfig(newConfig) ==
    /\ client' = [client EXCEPT
                      !.gatewayIp = IF newConfig.gatewayIp # None
                                    THEN Val(newConfig.gatewayIp) ELSE @]
    /\ connectionInfo' = IF newConfig.gatewayIp # None
                         THEN [isConnected |-> FALSE, isAuthenticated |-> FALSE]
                         ELSE connectionInfo
    /\ ret' = Result("updateConfig", "", FALSE, TRUE, "", FALSE, {})
    /\ UNCHANGED clientVars


Init ==
    /\ tools = [n \in RegistryKeys |-> None]
    /\ categories = [c \in Categories |-> <<>>]
    /\ dependencies = [n \in RegistryKeys |-> None]
    /\ connectionInfo = [isConnected |-> FALSE, isAuthenticated |-> FALSE]
    /\ cachedCapabilities = None
    /\ cacheTimestamp = None
    /\ now = 0
    /\ probes = 0
    /\ ret = NoResult
    /\ rt = IdleRetry
    /\ rl = IdleRate
    /\ client = NewClient(FALSE)
    /\ detections = NoDetections

Next ==
    \/ \E tool \in Descriptors : Register(tool)
    \/ \E batch \in Batches : RegisterBatch(batch)
    \/ \E n \in ToolNames : Unregister(n)
    \/ \E n \in ToolNames, e \in BOOLEAN : SetToolEnabled(n, e)
    \/ \E n \in ToolNames \cup {NonExistent}, h \in HandlerOutcomes,
          probe \in ProbeOutcomes : ExecuteTool(n, h, probe)
    \/ \E probe \in ProbeOutcomes : GetAvailableTools(probe)
    \/ \E probe \in ProbeOutcomes : GetToolsForMCP(probe)
    \/ \E ok \in BOOLEAN : Connect(ok)
    \/ Disconnect
    \/ ClearCache

Spec == Init /\ [][Next]_vars

\* One withRetry call with every configuration and every run of outcomes.
NextRetry ==
    \/ \E m \in 1..MaxAttemptsBound, e \in BOOLEAN : WithRetry(m, e)
    \/ \E o \in OperationOutcomes, hint \in RetryAfterHints,
          random \in Jitters : Operation(o, hint, random)
    \/ Backoff

SpecRetry == Init /\ [][NextRetry]_vars

\* Concurrent requests through one client's rate limiter.
InitRate ==
    /\ tools = [n \in RegistryKeys |-> None]
    /\ categories = [c \in Categories |-> <<>>]
    /\ dependencies = [n \in RegistryKeys |-> None]
    /\ connectionInfo = [isConnected |-> FALSE, isAuthenticated |-> FALSE]
    /\ cachedCapabilities = None
    /\ cacheTimestamp = None
    /\ now = 0
    /\ probes = 0
    /\ ret = NoResult
    /\ rt = IdleRetry
    /\ \E capacity \in Capacities : rl = RateLimiter(capacity)
    /\ client = NewClient(FALSE)
    /\ detections = NoDetections

NextRate ==
    \/ \E c \in Callers : EnforceRateLimit(c)
    \/ \E c \in Callers : Resume(c)
    \/ Tick

SpecRate == InitRate /\ [][NextRate]_vars

\* Sequential calls on one detector while time passes.
NextDetector ==
    \/ \E probe \in ProbeOutcomes, d \in ProbeDurations :
           DetectCapabilities(probe, d)
    \/ \E probe \in ProbeOutcomes, d \in ProbeDurations :
           ForceDetection(probe, d)
    \/ ClearCache
    \/ Tick

SpecDetector == Init /\ [][NextDetector]_vars

\* Concurrent callers of one detector while time passes.
NextDetections ==
    \/ \E c \in Detectors : StartDetection(c)
    \/ \E c \in Detectors : StartForceDetection(c)
    \/ \E c \in Detectors, probe \in ProbeOutcomes : FinishDetection(c, probe)
    \/ ClearCache
    \/ Tick

SpecDetections == Init /\ [][NextDetections]_vars

\* Sequential calls on one client, constructed with either verifySSL.
InitClient ==
    /\ tools = [n \in RegistryKeys |-> None]
    /\ categories = [c \in Categories |-> <<>>]
    /\ dependencies = [n \in RegistryKeys |-> None]
    /\ connectionInfo = [isConnected |-> FALSE, isAuthenticated |-> FALSE]
    /\ cachedCapabilities = None
    /\ cacheTimestamp = None
    /\ now = 0
    /\ probes = 0
    /\ ret = NoResult
    /\ rt = IdleRetry
    /\ rl = IdleRate
    /\ \E verifySSL \in BOOLEAN : client = NewClient(verifySSL)
    /\ detections = NoDetections

NextClient ==
    \/ ConnectCall
    \/ \E t \in Transports(TRUE) : TestConnection(t)
    \/ \E t \in Transports(TRUE) : Authenticate(t)
    \/ \E t \in Transports(TRUE) : GetSystemInfo(t)
    \/ HealthCheckCall
    \/ \E t \in Transports(TRUE) : HealthCheck(t)
    \/ client.pc = "idle" /\ Disconnect

SpecClient == InitClient /\ [][NextClient]_vars

\* One client whose connect() and healthCheck() calls await their requests
\* while disconnect() and updateConfig() are called.
NextConnection ==
    \/ ConnectCall
    \/ \E t \in Transports(TRUE) : TestConnection(t)
    \/ \E t \in Transports(TRUE) : Authenticate(t)
    \/ \E t \in Transports(TRUE) : GetSystemInfo(t)
    \/ HealthCheckCall
    \/ \E t \in Transports(TRUE) : HealthCheck(t)
    \/ Disconnect
    \/ \E newConfig \in NewConfigs : UpdateConfig(newConfig)

SpecConnection == InitClient /\ [][NextConnection]_vars

\* What the controller behind a gateway address reports: the two addresses
\* of the model lead to the two controllers of SystemInfos.
Controller(gatewayIp) ==
    CHOOSE si \in SystemInfos :
        (si.hardwareModel = USG_3P) <=> (gatewayIp = defaultGatewayIp)

\* The client is pointed at a gateway and connected, as unifi_connect does
\* with updateConfig() followed by connect(), while the detector is asked
\* for capabilities; its probe is answered by the configured controller or
\* fails.
NextReconfigure ==
    \/ \E newConfig \in NewConfigs : UpdateConfig(newConfig)
    \/ \E ok \in BOOLEAN : Connect(ok)
    \/ \E probe \in {None, Some(Controller(client.gatewayIp))},
          d \in ProbeDurations : DetectCapabilities(probe, d)
    \/ Tick

SpecReconfigure == Init /\ [][NextReconfigure]_vars

\* Registrations and removals, a name being registered again under the same
\* or under another category.
NextCategories ==
    \/ \E tool \in Descriptors \cup {recategorizedDevicesTool} : Register(tool)
    \/ \E batch \in Batches : RegisterBatch(batch)
    \/ \E n \in ToolNames : Unregister(n)
    \/ \E n \in ToolNames, e \in BOOLEAN : SetToolEnabled(n, e)

SpecCategories == Init /\ [][NextCategories]_vars

\* Invocations of tools that declare a version requirement.
NextFeature ==
    \/ \E tool \in {getZonesTool, versionedDevicesTool} : Register(tool)
    \/ \E n \in ToolNames, e \in BOOLEAN : SetToolEnabled(n, e)
    \/ \E n \in ToolNames, h \in HandlerOutcomes, probe \in ProbeOutcomes :
           ExecuteTool(n, h, probe)
    \/ \E ok \in BOOLEAN : Connect(ok)
    \/ ClearCache

SpecFeature == Init /\ [][NextFeature]_vars

\* Invocations of tools whose dependency list is validated.
NextDependencies ==
    \/ \E tool \in {getZonesTool, getFirewallRulesTool} : Register(tool)
    \/ \E tool \in {getZonesTool, getFirewallRulesTool},
          h \in HandlerOutcomes, probe \in ProbeOutcomes :
           ExecuteTool(tool.name, h, probe)
    \/ \E ok \in BOOLEAN : Connect(ok)
    \/ ClearCache

SpecDependencies == Init /\ [][NextDependencies]_vars

\* ------------------------------------------------------------------------
\* The detector's pure functions applied to generated inputs
\* ------------------------------------------------------------------------

\* Decimal numerals that make up the version strings of the model.
Numerals == {<<"0">>, <<"1">>, <<"8">>, <<"9">>, <<"1", "0">>}

\* Array.prototype.join('.')
RECURSIVE JoinDots(_)
JoinDots(parts) ==
    IF Len(parts) = 1 THEN parts[1]
    ELSE parts[1] \o <<".">> \o JoinDots(Tail(parts))

\* Lists of one to MaxComponents numerals, the components of a version.
ComponentLists == UNION {[1..n -> Numerals] : n \in 1..MaxComponents}

\* How a controller reports a version x.y.z: as it is, or inside a longer
\* string such as 'v9.0.0-rc'.
Reported(parts, decorated) ==
    IF decorated THEN <<"v">> \o JoinDots(parts) \o <<"-", "r", "c">>
    ELSE JoinDots(parts)

UDR == <<"U", "D", "R">>
UDM_Pro_Max == <<"U", "D", "M", "-", "P", "r", "o", "-", "M", "a", "x">>
udm_pro == <<"u", "d", "m", " ", "p", "r", "o">>

\* Hardware models a controller may report.
HardwareModels ==
    ZBF_REQUIRED_HARDWARE \cup {USG_3P, UDR, UDM_Pro_Max, udm_pro}

pureVars == <<tools, categories, dependencies, connectionInfo,
              cachedCapabilities, cacheTimestamp, now, probes, rt, rl, client, detections>>

\* Two version strings, with the components they were written from.
InitVersions ==
    /\ tools = [n \in RegistryKeys |-> None]
    /\ categories = [c \in Categories |-> <<>>]
    /\ dependencies = [n \in RegistryKeys |-> None]
    /\ connectionInfo = [isConnected |-> FALSE, isAuthenticated |-> FALSE]
    /\ cachedCapabilities = None
    /\ cacheTimestamp = None
    /\ now = 0
    /\ probes = 0
    /\ rt = IdleRetry
    /\ rl = IdleRate
    /\ client = NewClient(FALSE)
    /\ detections = NoDetections
    /\ \E a \in ComponentLists, b \in ComponentLists :
           ret = [op |-> "input", currentParts |-> a, minimumParts |-> b,
                  current |-> JoinDots(a), minimum |-> JoinDots(b),
                  value |-> FALSE]

\* isVersionAtLeast(current, minimum) is evaluated.
IsVersionAtLeast ==
    /\ ret.op = "input"
    /\ ret' = [ret EXCEPT !.op = "isVersionAtLeast",
                          !.value = isVersionAtLeast(ret.current, ret.minimum)]
    /\ UNCHANGED pureVars

NextVersions == IsVersionAtLeast

SpecVersions == InitVersions /\ [][NextVersions]_vars

\* The system information of a controller: a version, reported plainly or
\* inside a longer string when it has three components or more, and a
\* hardware model.
InitCapabilities ==
    /\ tools = [n \in RegistryKeys |-> None]
    /\ categories = [c \in Categories |-> <<>>]
    /\ dependencies = [n \in RegistryKeys |-> None]
    /\ connectionInfo = [isConnected |-> FALSE, isAuthenticated |-> FALSE]
    /\ cachedCapabilities = None
    /\ cacheTimestamp = None
    /\ now = 0
    /\ probes = 0
    /\ rt = IdleRetry
    /\ rl = IdleRate
    /\ client = NewClient(FALSE)
    /\ detections = NoDetections
    /\ \E parts \in ComponentLists, decorated \in BOOLEAN,
          hardwareModel \in HardwareModels :
           /\ decorated => Len(parts) >= 3
           /\ ret = [op |-> "input", parts |-> parts,
                     systemInfo |-> [version |-> Reported(parts, decorated),
                                     hardwareModel |-> hardwareModel],
                     capabilities |-> None, availability |-> None]

\* analyzeCapabilities(systemInfo) is evaluated.
AnalyzeCapabilities ==
    /\ ret.op = "input"
    /\ ret' = [ret EXCEPT !.op = "analyzeCapabilities",
                          !.capabilities =
                              Some(analyzeCapabilities(ret.systemInfo))]
    /\ UNCHANGED pureVars

\* getToolAvailability() builds its map from the snapshot.
GetToolAvailability ==
    /\ ret.op = "analyzeCapabilities"
    /\ ret' = [ret EXCEPT !.op = "getToolAvailability",
                          !.availability =
                              Some(getToolAvailability(Val(ret.capabilities)))]
    /\ UNCHANGED pureVars

NextCapabilities ==
    \/ AnalyzeCapabilities
    \/ GetToolAvailability

SpecCapabilities == InitCapabilities /\ [][NextCapabilities]_vars

\* ------------------------------------------------------------------------
\* UniFiClient: response formats
\* ------------------------------------------------------------------------

\* A JSON value of a response body: null, a string, an array of values, or
\* an object, of which only the properties meta and data are looked at
\* (None when the object has no such property).
Json(kind, text, meta, data, items) ==
    [kind |-> kind, text |-> text, meta |-> meta, data |-> data,
     items |-> items]

JsonNull == Json("null", "", None, None, <<>>)

JsonString(text) == Json("string", text, None, None, <<>>)

JsonArray(items) == Json("array", "", None, None, items)

JsonObject(meta, data) == Json("object", "", meta, data, <<>>)

\* The meta object of an envelope; its text stands for its rc.
Meta(rc) == Json("object", rc, None, None, <<>>)

\* The conversion of a value to a boolean: null and the empty string are
\* falsy, objects and arrays (the empty array too) are truthy.
Truthy(v) ==
    CASE v.kind = "null" -> FALSE
      [] v.kind = "string" -> v.text # ""
      [] OTHER -> TRUE

\* response.data.meta and response.data.data: undefined on a value that is
\* not an object.
Property(v, name) ==
    IF v.kind # "object" THEN None
    ELSE IF name = "meta" THEN v.meta ELSE v.data

\* The 'Handle different response formats' block of get, post, put and
\* delete, applied to response.data.
HandleResponseFormat(data) ==
    IF /\ Truthy(data)
       /\ Property(data, "meta") # None
       /\ Truthy(Val(Property(data, "meta")))
       /\ Property(data, "data") # None
       /\ Truthy(Val(Property(data, "data")))
    THEN data
    ELSE JsonObject(Some(Meta("ok")),
                    Some(IF data.kind = "array" THEN data
                         ELSE JsonArray(<<data>>)))

\* Elements of the arrays of the model.
JsonItems == {JsonString("a"), JsonObject(None, None)}

JsonArrays == {JsonArray(items) :
                   items \in UNION {[1..n -> JsonItems] : n \in 0..MaxItems}}

\* Bodies a controller may answer with: envelopes with rc 'ok' or 'error',
\* objects that have only one of meta and data, or a data that is not a
\* list, direct objects, arrays, strings and null.
ResponseBodies ==
    {JsonObject(Some(Meta(rc)), Some(a)) :
         rc \in {"ok", "error"}, a \in JsonArrays}
        \cup {JsonObject(Some(Meta("ok")), Some(d)) :
                  d \in {JsonNull, JsonString("x")}}
        \cup {JsonObject(Some(Meta("ok")), None), JsonObject(None, None)}
        \cup {JsonObject(None, Some(a)) : a \in JsonArrays}
        \cup JsonArrays
        \cup {JsonNull, JsonString(""), JsonString("a")}

\* The body of the response that makeRequest resolves with.
InitResponse ==
    /\ tools = [n \in RegistryKeys |-> None]
    /\ categories = [c \in Categories |-> <<>>]
    /\ dependencies = [n \in RegistryKeys |-> None]
    /\ connectionInfo = [isConnected |-> TRUE, isAuthenticated |-> TRUE]
    /\ cachedCapabilities = None
    /\ cacheTimestamp = None
    /\ now = 0
    /\ probes = 0
    /\ rt = IdleRetry
    /\ rl = IdleRate
    /\ client = NewClient(FALSE)
    /\ detections = NoDetections
    /\ \E body \in ResponseBodies :
           ret = [op |-> "input", body |-> body, value |-> JsonNull]

\* get, post, put or delete returns what it makes of the response body.
Request(method) ==
    /\ ret.op = "input"
    /\ ret' = [ret EXCEPT !.op = method,
                          !.value = HandleResponseFormat(ret.body)]
    /\ UNCHANGED pureVars

Get == Request("get")

Post == Request("post")

Put == Request("put")

Delete == Request("delete")

NextResponse ==
    \/ Get
    \/ Post
    \/ Put
    \/ Delete

SpecResponse == InitResponse /\ [][NextResponse]_vars

\* ------------------------------------------------------------------------
\* Properties of the registry and dispatcher
\* ------------------------------------------------------------------------

Registered(n) == n \in RegistryKeys /\ tools[n] # None

Entry(n) == Val(tools[n])

CacheValidNow == isCacheValid(cachedCapabilities, cacheTimestamp, now)

\* The enabled entries the cached snapshot marks available.
AvailableByCache ==
    {n \in ToolNames :
        /\ Registered(n)
        /\ Entry(n).enabled
        /\ IsAvailable(getToolAvailability(Val(cachedCapabilities)), n)}

\* C1: executeTool never throws: every call completes by returning a result,
\* an unregistered name giving success=false with code TOOL_NOT_FOUND and a
\* disabled tool success=false with code TOOL_DISABLED.
C1_ExecuteToolNeverThrows ==
    ret.op = "executeTool" =>
        /\ ~ret.threw
        /\ ~Registered(ret.name) => (~ret.success /\ ret.code = "TOOL_NOT_FOUND")
        /\ (Registered(ret.name) /\ ~Entry(ret.name).enabled)
               => (~ret.success /\ ret.code = "TOOL_DISABLED")

\* The failure kind of the first failing check in the order lookup, enabled,
\* connection, feature, read off the state an executeTool call leaves; "ok"
\* when none of the four fails.
FirstFailingCheck(n) ==
    IF ~Registered(n) THEN "TOOL_NOT_FOUND"
    ELSE IF ~Entry(n).enabled THEN "TOOL_DISABLED"
    ELSE IF Entry(n).tool.requiresConnection /\ ~isConnected(connectionInfo)
    THEN "CONNECTION_REQUIRED"
    ELSE IF /\ Entry(n).tool.requiresVersion # None
            /\ \/ ~CacheValidNow
               \/ validateFeature(getCategoryFeature(Entry(n).tool.category),
                                  Val(cachedCapabilities)) # "ok"
    THEN "FEATURE_NOT_AVAILABLE"
    ELSE "ok"

\* C2: the failure kind executeTool reports before the handler stage is that
\* of the first failing check in the order lookup, enabled, connection,
\* feature; the call gets past the four checks exactly when none fails.
C2_FirstFailingCheckReported ==
    ret.op = "executeTool" =>
        IF FirstFailingCheck(ret.name) = "ok"
        THEN ~ret.threw
        ELSE ret.threw /\ ret.code = FirstFailingCheck(ret.name)

\* C2 witness: a disabled tool that requires a connection was invoked while
\* disconnected and TOOL_DISABLED was reported.
C2_Witness ==
    /\ ret.op = "executeTool"
    /\ Registered(ret.name)
    /\ ~Entry(ret.name).enabled
    /\ Entry(ret.name).tool.requiresConnection
    /\ ~isConnected(connectionInfo)
    /\ ret.code = "TOOL_DISABLED"

\* C6 as stated: disconnected, getToolsForMCP lists exactly the enabled
\* registered tools; connected, exactly what getAvailableTools lists.
C6_DisconnectedListsEnabledOnly ==
    ret.op = "getToolsForMCP" =>
        IF ~isConnected(connectionInfo)
        THEN ret.list = {n \in ToolNames : Registered(n) /\ Entry(n).enabled}
        ELSE ret.list = (IF CacheValidNow THEN AvailableByCache
                         ELSE {n \in ToolNames : Registered(n) /\ Entry(n).enabled})

\* C6 amended: disconnected, getToolsForMCP lists exactly the registered
\* tools, disabled ones included; connected, it lists exactly what
\* getAvailableTools lists: the enabled tools the snapshot marks available,
\* or every enabled tool when detection fails.
C6_DisconnectedListsAllRegistered ==
    ret.op = "getToolsForMCP" =>
        IF ~isConnected(connectionInfo)
        THEN ret.list = {n \in ToolNames : Registered(n)}
        ELSE ret.list = (IF CacheValidNow THEN AvailableByCache
                         ELSE {n \in ToolNames : Registered(n) /\ Entry(n).enabled})

\* C6 witness: a disconnected listing that holds a disabled tool.
C6_Witness ==
    /\ ret.op = "getToolsForMCP"
    /\ ~isConnected(connectionInfo)
    /\ \E n \in ret.list : Registered(n) /\ ~Entry(n).enabled

\* C7: getAvailableTools does not throw; it returns exactly the enabled tools
\* whose availability entry has available=true and, when capability detection
\* fails, exactly the enabled tools.
C7_AvailableToolsOrAllEnabled ==
    ret.op = "getAvailableTools" =>
        /\ ~ret.threw
        /\ ret.list = (IF CacheValidNow THEN AvailableByCache
                       ELSE {n \in ToolNames : Registered(n) /\ Entry(n).enabled})

\* C7 witness: detection failed, and the listing is the enabled tools while a
\* disabled tool is registered too.
C7_Witness ==
    /\ ret.op = "getAvailableTools"
    /\ ~CacheValidNow
    /\ ret.list # {}
    /\ \E n \in ToolNames : Registered(n) /\ ~Entry(n).enabled

\* A tool with no feature or version requirement: no requiresVersion and no
\* category-implied feature dependency.
NoFeatureRequirement(tool) ==
    /\ tool.requiresVersion = None
    /\ \A i \in 1..Len(extractDependencies(tool)) :
           extractDependencies(tool)[i] = "unifi_connect"

\* C8: connected and with detection succeeding, every enabled registered tool
\* without a feature or version requirement is listed by getAvailableTools.
C8_UnrestrictedToolsAvailable ==
    (ret.op = "getAvailableTools" /\ isConnected(connectionInfo) /\ CacheValidNow)
        => \A n \in ToolNames :
               (Registered(n) /\ Entry(n).enabled
                    /\ NoFeatureRequirement(Entry(n).tool))
                   => n \in ret.list

\* C9: an executeTool call that reaches the handler raises that entry's
\* usageCount by exactly 1 and sets lastUsed, whatever the handler does.
C9_HandlerCallCounted ==
    [][(ret'.op = "executeTool" /\ ret'.handler)
           => /\ Registered(ret'.name)
              /\ tools'[ret'.name] # None
              /\ Val(tools'[ret'.name]).usageCount = Entry(ret'.name).usageCount + 1
              /\ Val(tools'[ret'.name]).lastUsed = Some(now')]_vars

\* C9 witness: the handler threw and the call was counted.
C9_Witness ==
    /\ ret.op = "executeTool"
    /\ ret.handler
    /\ ret.code = "EXECUTION_ERROR"
    /\ Entry(ret.name).usageCount = 1
    /\ Entry(ret.name).lastUsed # None

\* C10 as stated: the usageCount of a name that stays registered never
\* decreases, re-registration of the name included.
C10_UsageNeverDecreases ==
    [][\A n \in ToolNames :
           (tools[n] # None /\ tools'[n] # None)
               => Val(tools'[n]).usageCount >= Val(tools[n]).usageCount]_vars

\* C10 amended: the usageCount of a name that stays registered never decreases
\* across executeTool and setToolEnabled calls and across registrations of
\* other names; register or registerBatch of the name itself replaces the
\* entry, whose usageCount is 0 again.
C10_UsageDecreasesOnlyOnReRegistration ==
    [][\A n \in ToolNames :
           (tools[n] # None /\ tools'[n] # None)
               => \/ Val(tools'[n]).usageCount >= Val(tools[n]).usageCount
                  \/ /\ ret'.op \in {"register", "registerBatch"}
                     /\ n \in ret'.list
                     /\ Val(tools'[n]).usageCount = 0]_vars

\* C10 witness: a used tool has just been disabled and keeps its count.
C10_Witness ==
    /\ ret.op = "setToolEnabled"
    /\ ret.success
    /\ ~Entry(ret.name).enabled
    /\ Entry(ret.name).usageCount >= 1

\* ------------------------------------------------------------------------
\* Properties of withRetry (under SpecRetry)
\* ------------------------------------------------------------------------

AllRetryableErrors(seen, n) == \A i \in 1..n : seen[i] \in RetryableErrors

\* C3: withRetry invokes the operation until the first success, the first
\* error that is not retryable, or maxAttempts invocations, whichever comes
\* first, and never more than maxAttempts times: while the call is running
\* every invocation so far failed with a retryable error and fewer than
\* maxAttempts were made; when it has ended, every invocation but the last
\* failed with a retryable error, the last one succeeded, or failed with a
\* non-retryable error, or was invocation number maxAttempts, and the call
\* succeeded exactly when the last invocation did.  In particular two
\* retryable failures followed by a success, with maxAttempts at least 3,
\* end in success after exactly three invocations, and a non-retryable
\* first failure ends the call after exactly one.
C3_RetryStopsAtFirstDecisiveOutcome ==
    /\ rt.calls = Len(rt.seen)
    /\ rt.calls <= rt.maxAttempts
    /\ rt.pc \in {"calling", "sleeping"} =>
           /\ rt.calls < rt.maxAttempts
           /\ AllRetryableErrors(rt.seen, rt.calls)
    /\ rt.pc = "done" =>
           /\ rt.calls >= 1
           /\ AllRetryableErrors(rt.seen, rt.calls - 1)
           /\ \/ rt.seen[rt.calls] = "ok"
              \/ rt.seen[rt.calls] \notin RetryableErrors
              \/ rt.calls = rt.maxAttempts
           /\ rt.result = "success" <=> rt.seen[rt.calls] = "ok"
           /\ rt.result = "thrown" <=> rt.seen[rt.calls] # "ok"
    /\ (/\ rt.pc = "done"
        /\ rt.seen[1] \in NonRetryableErrors \cup {"Error"}) =>
           rt.calls = 1 /\ rt.result = "thrown"
    /\ (/\ rt.maxAttempts >= 3
        /\ Len(rt.seen) >= 3
        /\ rt.seen[1] \in RetryableErrors
        /\ rt.seen[2] \in RetryableErrors
        /\ rt.seen[3] = "ok") =>
           rt.pc = "done" /\ rt.calls = 3 /\ rt.result = "success"

\* Two retryable failures, then a success on the third invocation.
C3_Witness ==
    /\ rt.pc = "done"
    /\ rt.result = "success"
    /\ rt.calls = 3
    /\ rt.seen[1] \in RetryableErrors
    /\ rt.seen[2] \in RetryableErrors

\* ------------------------------------------------------------------------
\* Properties of the rate limiter (under SpecRate)
\* ------------------------------------------------------------------------

FreshSnapshot ==
    /\ cachedCapabilities # None
    /\ cacheTimestamp # None
    /\ now - Val(cacheTimestamp) < TicksPerValidity

DetectCapabilitiesStep ==
    \E probe \in ProbeOutcomes, d \in ProbeDurations :
        DetectCapabilities(probe, d)

ForceDetectionStep ==
    \E probe \in ProbeOutcomes, d \in ProbeDurations : ForceDetection(probe, d)

\* C5: detectCapabilities issues a probe exactly when no snapshot younger
\* than the validity window is cached; when one is cached it returns that
\* snapshot and leaves the cache as it is; forceDetection always issues a
\* probe.
C5_ProbeExactlyWhenNoFreshSnapshot ==
    [][/\ DetectCapabilitiesStep =>
              /\ FreshSnapshot => /\ probes' = probes
                                  /\ ~ret'.threw
                                  /\ ret'.caps = cachedCapabilities
                                  /\ UNCHANGED <<cachedCapabilities,
                                                 cacheTimestamp>>
              /\ ~FreshSnapshot => probes' = probes + 1
       /\ ForceDetectionStep => probes' = probes + 1]_vars

\* A second call, later and within the validity window, was answered from
\* the snapshot of the only probe issued so far.
C5_Witness ==
    /\ ret.op = "detectCapabilities"
    /\ ~ret.probed
    /\ probes = 1
    /\ cacheTimestamp # None
    /\ now > Val(cacheTimestamp)
    /\ ret.caps = cachedCapabilities

\* ------------------------------------------------------------------------
\* Properties of the category index (under SpecCategories)
\* ------------------------------------------------------------------------

\* Number of entries of the tools map.
totalTools == Cardinality({n \in ToolNames : Registered(n)})

\* Number of positions of category lists that hold the name n.
Listings(n) ==
    Cardinality({<<c, i>> \in Categories \X (1..Cardinality(ToolNames) + 1) :
                    i <= Len(categories[c]) /\ categories[c][i] = n})

\* C11: after any sequence of register and unregister calls every registered
\* name is listed in exactly one category list, that of its descriptor's
\* category, and no other name is listed: getToolsByCategory(c) returns only
\* tools of category c and the list lengths (categoryCounts) sum to the
\* number of entries (totalTools), also after a name was registered again
\* under another category.
C11_CategoryIndexMatchesDescriptors ==
    /\ \A n \in ToolNames :
           IF Registered(n)
           THEN /\ Listings(n) = 1
                /\ InList(categories[Entry(n).tool.category], n)
           ELSE Listings(n) = 0
    /\ \A c \in Categories :
           \A n \in getToolsByCategory(tools, categories, c) :
               Entry(n).tool.category = c

\* ------------------------------------------------------------------------
\* Properties of the feature check (under SpecFeature)
\* ------------------------------------------------------------------------

\* The snapshot meets what the descriptor requires: the feature flag of a
\* firewall category, and the declared minimum version.
RequirementSatisfied(tool, capabilities) ==
    /\ tool.category = "firewall-zbf" => capabilities.supportsZBF
    /\ tool.category = "firewall-legacy" => capabilities.supportsLegacyFirewall
    /\ isVersionAtLeast(capabilities.version, Val(tool.requiresVersion))

\* An enabled tool with a version requirement was invoked while connected.
FeatureCheckMade ==
    /\ ret.op = "executeTool"
    /\ Registered(ret.name)
    /\ Entry(ret.name).enabled
    /\ Entry(ret.name).tool.requiresVersion # None
    /\ isConnected(connectionInfo)

\* C12: connected, an enabled tool with a version requirement fails with
\* FEATURE_NOT_AVAILABLE exactly when detection fails or the snapshot does
\* not meet the requirement; when the requirement is met the handler runs,
\* whatever the tool's category.
C12_FeatureCheckFollowsSnapshot ==
    FeatureCheckMade =>
        /\ ret.code = "FEATURE_NOT_AVAILABLE" <=>
               \/ ~CacheValidNow
               \/ ~RequirementSatisfied(Entry(ret.name).tool,
                                        Val(cachedCapabilities))
        /\ (/\ CacheValidNow
            /\ RequirementSatisfied(Entry(ret.name).tool,
                                    Val(cachedCapabilities))) => ret.handler

\* ------------------------------------------------------------------------
\* Properties of the retry delay (under SpecRetry)
\* ------------------------------------------------------------------------

\* The attempt that just failed was rejected with a 429 and is retried.
RateLimitedAndRetried ==
    /\ rt.pc = "sleeping"
    /\ rt.seen[Len(rt.seen)] = "RateLimitError"

\* C13: while withRetry waits after an attempt that failed with a 429, the
\* timer is set to at least the retry-after value of the response when it
\* carries one (r seconds, 1000 * r ms), and to the backoff delay plus the
\* jitter when it carries none.
C13_RetryAfterHintIsHonoured ==
    RateLimitedAndRetried =>
        IF rt.retryAfter # None
        THEN rt.delay >= 1000 * Val(rt.retryAfter)
        ELSE rt.delay - rt.jitter
                 = retryDelay(rt.attempt, rt.exponentialBackoff)

\* ------------------------------------------------------------------------
\* Properties of the client (under SpecClient)
\* ------------------------------------------------------------------------

\* The last call on the client was connect() and it rejected.
ConnectRejected == ret.op = "connect" /\ ret.threw /\ client.pc = "idle"

\* The transport outcome is a failure of the transport: no response, or a
\* response with an error status.
TransportFailure(t) == t.status = 0 \/ t.status >= 400

\* C14: a rejected connect() carries one error kind, which depends only on
\* the transport failure behind it (the same kind at whichever request of
\* connect() the failure occurs): CONNECTION_FAILED for a refused
\* connection or an unreachable host, API_KEY_INVALID or
\* AUTHENTICATION_FAILED for a 401, and for a certificate that fails
\* verification a kind other than CONNECTION_FAILED.
C14_ConnectErrorKindFollowsTransport ==
    ConnectRejected =>
        \E t \in {Val(client.failure)} :
            /\ TransportFailure(t) =>
                   \A r \in {testConnection(t), authenticate(t),
                              getSystemInfo(t)} :
                       ~r.ok => r.error.code = ret.code
            /\ t.code \in {"ECONNREFUSED", "EHOSTUNREACH", "ENOTFOUND"} =>
                   ret.code = "CONNECTION_FAILED"
            /\ t.status = 401 =>
                   ret.code \in {"API_KEY_INVALID", "AUTHENTICATION_FAILED"}
            /\ t.code \in CertificateCodes =>
                   ret.code # "CONNECTION_FAILED"

\* The last call on the client was healthCheck() and it has returned.
HealthCheckReturned == ret.op = "healthCheck" /\ client.pc = "idle"

\* C15: healthCheck() never rejects; it returns 'healthy' only when
\* isConnected() is true, and when it returns 'unhealthy' isConnected() is
\* false and lastError holds the message of the error that caused it.
C15_HealthCheckAgreesWithConnectionState ==
    HealthCheckReturned =>
        /\ ~ret.threw
        /\ ret.code = "healthy" => isConnected(connectionInfo)
        /\ ret.code = "unhealthy" =>
               /\ ~isConnected(connectionInfo)
               /\ client.thrown # None
               /\ client.lastError = Some(Val(client.thrown).message)

\* C16: disconnect() resolves on a connected and on a disconnected client,
\* leaves isConnected() false and the request queue empty, and a second
\* call right after the first changes nothing.
C16_DisconnectIsIdempotent ==
    [][(ret'.op = "disconnect" /\ client.pc = "idle" /\ client'.pc = "idle") =>
           /\ ~ret'.threw
           /\ ~isConnected(connectionInfo')
           /\ client'.requestQueue = <<>>
           /\ ret.op = "disconnect" =>
                  UNCHANGED <<connectionInfo, client, ret>>]_vars

\* disconnect() has resolved on a client whose last connect() succeeded.
C16_Witness ==
    /\ ret.op = "disconnect"
    /\ client.connectionAttempts > 0
    /\ client.failure = None
    /\ ~isConnected(connectionInfo)

\* ------------------------------------------------------------------------
\* Properties of version comparison (under SpecVersions)
\* ------------------------------------------------------------------------

\* The number a numeral of the model denotes.
NumeralValue(n) ==
    CASE n = <<"0">> -> 0 [] n = <<"1">> -> 1 [] n = <<"8">> -> 8
      [] n = <<"9">> -> 9 [] n = <<"1", "0">> -> 10

\* Component i of a list of numerals, a missing component being 0.
Component(parts, i) == IF i <= Len(parts) THEN NumeralValue(parts[i]) ELSE 0

\* a is at least b in the left-to-right order of components.
ComponentsAtLeast(a, b) ==
    \/ \A i \in 1..Max(Len(a), Len(b)) : Component(a, i) = Component(b, i)
    \/ \E i \in 1..Max(Len(a), Len(b)) :
           /\ Component(a, i) > Component(b, i)
           /\ \A j \in 1..(i - 1) : Component(a, j) = Component(b, j)

\* C17: isVersionAtLeast(a, b) is true exactly when the components of a,
\* compared left to right as integers with missing trailing components taken
\* as 0, are at least those of b; it is reflexive and total; and it is true
\* for ('9.0.0', '9.0.0'), ('9.0.1', '9.0.0') and ('9.0', '9.0.0') and false
\* for ('8.9.9', '9.0.0').
C17_VersionOrder ==
    ret.op = "isVersionAtLeast" =>
        /\ ret.value = ComponentsAtLeast(ret.currentParts, ret.minimumParts)
        /\ isVersionAtLeast(ret.current, ret.current)
        /\ ret.value \/ isVersionAtLeast(ret.minimum, ret.current)
        /\ ret.minimum = V_9_0_0 =>
               /\ ret.current = V_9_0_0 => ret.value
               /\ ret.current = <<"8", ".", "9", ".", "9">> => ~ret.value
               /\ ret.current = <<"9", ".", "0", ".", "1">> => ret.value
               /\ ret.current = <<"9", ".", "0">> => ret.value

\* '9.0' was compared with '9.0.0', and '8.9.9' can be.
C17_Witness ==
    /\ ret.op = "isVersionAtLeast"
    /\ ret.current = <<"9", ".", "0">>
    /\ ret.minimum = V_9_0_0
    /\ ret.value
    /\ <<"8", ".", "9", ".", "9">> \in {JoinDots(p) : p \in ComponentLists}

\* ------------------------------------------------------------------------
\* Properties of capability analysis (under SpecCapabilities)
\* ------------------------------------------------------------------------

\* The components of the normalized version: the first three when there are
\* that many, all of them otherwise.
NormalizedParts(parts) ==
    IF Len(parts) >= 3 THEN SubSeq(parts, 1, 3) ELSE parts

\* The components of 9.0.0.
NineZeroZero == <<<<"9">>, <<"0">>, <<"0">>>>

\* The models of the generated inputs that match a model required for the
\* zone-based firewall.
MatchingModels == ZBF_REQUIRED_HARDWARE \cup {UDM_Pro_Max, udm_pro}

\* analyzeCapabilities has returned the snapshot of the input.
CapabilitiesAnalyzed ==
    ret.op \in {"analyzeCapabilities", "getToolAvailability"}

\* C18: supportsZBF is true exactly when the normalized version is at least
\* 9.0.0 and the hardware model matches one of UCG-Ultra, UCG-Max, UDM-Pro,
\* UDM-Base: false at 8.9.0 on every model, false at 9.1.0 on a model that
\* does not match, true at 9.0.0 on one that does.
C18_ZBFNeedsVersionAndHardware ==
    CapabilitiesAnalyzed =>
        /\ Val(ret.capabilities).supportsZBF <=>
               /\ ComponentsAtLeast(NormalizedParts(ret.parts), NineZeroZero)
               /\ ret.systemInfo.hardwareModel \in MatchingModels
        /\ ret.systemInfo.version = <<"8", ".", "9", ".", "0">> =>
               ~Val(ret.capabilities).supportsZBF
        /\ (/\ ret.systemInfo.version = <<"9", ".", "1", ".", "0">>
            /\ ret.systemInfo.hardwareModel \in {USG_3P, UDR}) =>
               ~Val(ret.capabilities).supportsZBF
        /\ (/\ ret.systemInfo.version = V_9_0_0
            /\ ret.systemInfo.hardwareModel \in ZBF_REQUIRED_HARDWARE) =>
               Val(ret.capabilities).supportsZBF

\* 9.1.0 on a USG-3P was analyzed and has no zone-based firewall, and 9.0.0
\* on a UDM-Pro is among the inputs.
C18_Witness ==
    /\ ret.op = "analyzeCapabilities"
    /\ ret.systemInfo.version = <<"9", ".", "1", ".", "0">>
    /\ ret.systemInfo.hardwareModel = USG_3P
    /\ ~Val(ret.capabilities).supportsZBF
    /\ checkZBFSupport(V_9_0_0, UDM_Pro)

LegacyFirewallPaths ==
    {"/api/s/{site}/rest/firewallrule", "/api/s/{site}/rest/firewallgroup"}

\* Number of positions of the list that hold x.
Occurrences(list, x) == Cardinality({i \in 1..Len(list) : list[i] = x})

IsEnvelope(body) ==
    /\ body.kind = "object"
    /\ body.meta # None
    /\ body.data # None
    /\ Val(body.data).kind = "array"

\* C20: get, post, put and delete return a body that is the canonical
\* envelope unchanged, whatever its rc; any other body they return as the
\* only element of the data list of an envelope with a meta; and applying
\* the normalization to what they return changes nothing.
C20_ResponseNormalization ==
    ret.op \in {"get", "post", "put", "delete"} =>
        /\ IsEnvelope(ret.body) => ret.value = ret.body
        /\ ~IsEnvelope(ret.body) =>
               /\ ret.value.meta = Some(Meta("ok"))
               /\ ret.value.data = Some(JsonArray(<<ret.body>>))
        /\ HandleResponseFormat(ret.value) = ret.value

\* ------------------------------------------------------------------------
\* Properties of the registry, continued (under Spec)
\* ------------------------------------------------------------------------

\* The name is returned by getTool, by getAllTools and by getToolsByCategory
\* of its category, or by none of them for any category.
Visible(tls, cats, n) ==
    /\ getTool(tls, n) # None
    /\ n \in getAllTools(tls)
    /\ n \in getToolsByCategory(tls, cats, Val(tls[n]).tool.category)

Hidden(tls, cats, n) ==
    /\ getTool(tls, n) = None
    /\ n \notin getAllTools(tls)
    /\ \A c \in Categories : n \notin getToolsByCategory(tls, cats, c)

\* C21: setToolEnabled(name, false) on a registered name hides it from
\* getTool, getAllTools and getToolsByCategory and setToolEnabled(name, true)
\* makes it visible; every other field of the entry, every other entry and
\* the category and dependency indices stay as they were; for a name that is
\* not registered it returns false and changes nothing.
C21_SetToolEnabledTogglesVisibilityOnly ==
    [][\A n \in ToolNames, enabled \in BOOLEAN :
           SetToolEnabled(n, enabled) =>
               /\ categories' = categories
               /\ dependencies' = dependencies
               /\ \A m \in ToolNames \ {n} : tools'[m] = tools[m]
               /\ IF tools[n] = None
                  THEN ~ret'.success /\ tools'[n] = None
                  ELSE /\ ret'.success
                       /\ tools'[n] # None
                       /\ [Val(tools'[n]) EXCEPT
                               !.enabled = Val(tools[n]).enabled]
                              = Val(tools[n])
                       /\ IF enabled THEN Visible(tools', categories', n)
                          ELSE Hidden(tools', categories', n)]_vars

\* A tool whose invocation failed has been disabled: it is hidden and its
\* entry still holds the counts and the indices still hold its name.
C21_Witness ==
    /\ ret.op = "setToolEnabled"
    /\ ret.success
    /\ Hidden(tools, categories, ret.name)
    /\ Entry(ret.name).errorCount >= 1
    /\ InList(categories[Entry(ret.name).tool.category], ret.name)
    /\ dependencies[ret.name] # None

\* C22: in every reachable registry state every entry has
\* errorCount <= usageCount, one failed invocation raising the errorCount
\* of the entry by exactly 1.
C22_ErrorCountAtMostUsageCount ==
    \A n \in ToolNames :
        Registered(n) => Entry(n).errorCount <= Entry(n).usageCount

\* ------------------------------------------------------------------------
\* Properties of the rate limiter, continued (under SpecRate)
\* ------------------------------------------------------------------------

\* C23: whatever the number of suspended requests, the bucket is filled
\* once per window, that is, a request fills it only when the current window
\* has lasted the window length, and no more than C tokens are taken between
\* one window start and the next.
C23_OneRefillPerWindow ==
    [][/\ \A c \in Callers :
              (rl.callers[c].pc = "waiting" /\ rl'.callers[c].pc = "passed") =>
                  now - rl.lastRateLimitReset >= TicksPerWindow
       /\ rl'.granted <= rl'.capacity]_vars

\* ------------------------------------------------------------------------
\* Properties of concurrent detections (under SpecDetections)
\* ------------------------------------------------------------------------

\* The callers whose probe is in flight.
Probing == {c \in Detectors : detections[c].pc = "probing"}

StartsProbing(c) ==
    detections[c].pc # "probing" /\ detections'[c].pc = "probing"

ProbeAnswered(c) ==
    detections[c].pc = "probing" /\ detections'[c].pc # "probing"

\* C24, as claimed: detectCapabilities() calls that start while no valid
\* snapshot is cached collapse into one detection in flight, so that no two
\* probes are ever in flight together.
C24_SingleInFlightDetection == Cardinality(Probing) <= 1

\* C24, as the detector behaves: every detectCapabilities() call that starts
\* while no valid snapshot is cached issues a getSystemInfo probe of its own,
\* whether or not other probes are in flight; a call whose probe is answered
\* returns the snapshot analysed from its own answer and stores it with the
\* current time, replacing what another call may have stored.
C24_EachMissIssuesItsOwnProbe ==
    [][\A c \in Detectors :
          /\ StartsProbing(c) => probes' = probes + 1
          /\ (ProbeAnswered(c) /\ detections'[c].pc = "returned") =>
                 /\ detections'[c].caps # None
                 /\ \E si \in SystemInfos :
                        Val(detections'[c].caps) = Analyzed(si)
                 /\ cachedCapabilities' = detections'[c].caps
                 /\ cacheTimestamp' = Some(now)]_vars

\* Two calls started on the same miss and each issued a probe: one has
\* returned and stored its snapshot while the probe of the other is still
\* in flight.
C24_Witness ==
    \E c1, c2 \in Detectors :
        /\ detections[c1].pc = "probing"
        /\ detections[c2].pc = "returned"
        /\ probes = 2
        /\ now = 0
        /\ cachedCapabilities # None
        /\ cachedCapabilities = detections[c2].caps

\* C26: in every reachable state of the detector cachedCapabilities and
\* cacheTimestamp are both null or both set, and a set snapshot is what
\* analyzeCapabilities makes of one answer of getSystemInfo; a
\* detectCapabilities call whose probe fails throws
\* CAPABILITY_DETECTION_FAILED and leaves both fields as they are.
C26_SnapshotReplacedAtomically ==
    /\ [](/\ (cachedCapabilities = None) <=> (cacheTimestamp = None)
          /\ cachedCapabilities # None =>
                 \E si \in SystemInfos :
                     Val(cachedCapabilities) = Analyzed(si))
    /\ [][\A c \in Detectors :
              (ProbeAnswered(c) /\ detections'[c].pc = "threw") =>
                  /\ ret'.threw
                  /\ ret'.caps = None
                  /\ UNCHANGED <<cachedCapabilities, cacheTimestamp>>]_vars

\* The probe of a call failed while a snapshot stored earlier by another
\* call is cached: the call threw and the snapshot is still there.
C26_Witness ==
    \E c \in Detectors :
        /\ detections[c].pc = "threw"
        /\ ret.threw
        /\ cachedCapabilities # None
        /\ cacheTimestamp # None
        /\ Val(cacheTimestamp) < now

\* C28: a detection whose probe was issued before clearCache() or
\* forceDetection() was called does not populate the cache when its probe is
\* answered afterwards, so that after clearCache() the cache only holds
\* snapshots of probes issued after that call.
C28_ClearedProbeNeverPopulates ==
    [][\A c \in Detectors :
          (ProbeAnswered(c) /\ detections[c].cleared) =>
              UNCHANGED <<cachedCapabilities, cacheTimestamp>>]_vars

\* ------------------------------------------------------------------------
\* Properties of executeTool, continued (under SpecDependencies)
\* ------------------------------------------------------------------------

\* Every dependency stored for the name n is satisfied in the current state.
DependenciesHold(n) ==
    /\ dependencies[n] # None
    /\ \A i \in 1..Len(Val(dependencies[n])) :
           LET dependency == Val(dependencies[n])[i]
           IN  /\ dependency = "unifi_connect" => isConnected(connectionInfo)
               /\ dependency = "zbf_support" =>
                      CacheValidNow /\ Val(cachedCapabilities).supportsZBF
               /\ dependency = "legacy_firewall_support" =>
                      /\ CacheValidNow
                      /\ Val(cachedCapabilities).supportsLegacyFirewall

\* C25: one executeTool call invokes the handler at most once, and only when
\* the lookup, enabled, connection and feature checks and the validation of
\* the dependency list have all passed; a call in which a check fails does
\* not invoke it, and a call whose handler fails or throws returns the
\* failure with that one invocation counted once.
C25_HandlerOnceAfterAllChecks ==
    [][ret'.op = "executeTool" =>
          /\ ret'.handler =>
                 /\ ~ret'.threw
                 /\ Registered(ret'.name)
                 /\ (FirstFailingCheck(ret.name) = "ok")'
                 /\ DependenciesHold(ret.name)'
                 /\ Val(tools'[ret'.name]).usageCount
                        = Entry(ret'.name).usageCount + 1
          /\ ~ret'.handler =>
                 /\ ~ret'.success
                 /\ ret'.code # ""
                 /\ \/ (FirstFailingCheck(ret.name) # "ok")'
                    \/ ~DependenciesHold(ret.name)']_vars

\* A tool behind the connection, feature and dependency checks was invoked,
\* its handler threw, and the failure was returned with one use counted;
\* before that a tool without a version requirement had failed.
C25_Witness ==
    /\ ret.op = "executeTool"
    /\ ret.handler
    /\ ~ret.success
    /\ ret.code = "EXECUTION_ERROR"
    /\ Entry(ret.name).tool.requiresConnection
    /\ Entry(ret.name).tool.requiresVersion # None
    /\ Len(Val(dependencies[ret.name])) >= 2
    /\ Entry(ret.name).usageCount = 1
    /\ \E n \in RegistryKeys :
           /\ Registered(n)
           /\ Entry(n).tool.requiresVersion = None
           /\ Entry(n).errorCount >= 1

\* ------------------------------------------------------------------------
\* Properties of the client under concurrent calls (under SpecConnection)
\* ------------------------------------------------------------------------

\* C27: when disconnect() has completed while a connect() started earlier
\* was awaiting a request, that connect() does not make the client connected:
\* isConnected() is false until a connect() that starts later succeeds.
C27_DisconnectOutlastsEarlierConnect ==
    client.disconnected => ~isConnected(connectionInfo)

\* C30: the client starts with isConnected and isAuthenticated both false,
\* and in every reachable state the two flags are equal, whatever sequence
\* of connect (succeeding or failing), disconnect, updateConfig and
\* healthCheck led there.
C30_FlagsAgree ==
    /\ ~connectionInfo.isConnected
    /\ ~connectionInfo.isAuthenticated
    /\ [](connectionInfo.isConnected = connectionInfo.isAuthenticated)

\* A connected client was given a new gateway address: both flags are
\* cleared while connect() is not in progress.
C30_Witness ==
    /\ ret.op = "updateConfig"
    /\ client.gatewayIp # defaultGatewayIp
    /\ client.connectionAttempts >= 1
    /\ client.lastError = None
    /\ client.pc = "idle"
    /\ ~connectionInfo.isConnected
    /\ ~connectionInfo.isAuthenticated

\* ------------------------------------------------------------------------
\* Properties of the detector after reconfiguration (under SpecReconfigure)
\* ------------------------------------------------------------------------

\* C29: once updateConfig has changed the gateway address and the client is
\* connected to the new controller, the snapshot detectCapabilities serves
\* comes from a probe of the controller currently configured, never from
\* one cached while another gateway was configured.
C29_SnapshotOfConfiguredController ==
    (/\ ret.op = "detectCapabilities"
     /\ ~ret.threw
     /\ isConnected(connectionInfo))
        => ret.caps = Some(Analyzed(Controller(client.gatewayIp)))

====
